---- MODULE Spec2Model ----
(***************************************************************************)
(* A model of the x-engine conformance harness: the QT3 assertion          *)
(* evaluator (testdriver/qt3.rs check_assertion), the three test runners   *)
(* (run_xpath_tests, run_xslt_tests, run_xsd_tests), the unified engine    *)
(* dispatch (unified.rs) and the compliance report (reporter.rs).          *)
(*                                                                         *)
(* Eight specifications share the variables:                               *)
(*   SpecEval    applies check_assertion to one assertion tree and one     *)
(*               execution outcome drawn from bounded sets;                *)
(*   Spec        runs one conformance run (catalog, test sets, test cases, *)
(*               report, output) of one suite against one backend;         *)
(*   SpecCase    runs one test case of every shape;                        *)
(*   SpecParse   parses one test-set file with local environments under a  *)
(*               map of global environments and runs its test cases;       *)
(*   SpecReport  reports and prints any list of results;                   *)
(*   SpecCli     runs the command line tool on any command line;           *)
(*   SpecDispatch calls one document operation of XEngine on a document    *)
(*               of any backend;                                           *)
(*   SpecResult  parses the result element of a test case into an          *)
(*               Assertion and evaluates it.                               *)
(***************************************************************************)
EXTENDS Integers, Sequences, FiniteSets, TLC

VARIABLES
    ev_assertion,   \* SpecEval: the Assertion handed to check_assertion
    ev_result,      \* SpecEval: the execution outcome (Ok result / Err)
    ev_outcome,     \* SpecEval: what check_assertion returned, with its trace
    suite,          \* Spec: "qt3" | "xslt30" | "xsd" (the CLI's --suite)
    backend,        \* Spec: Backend of the XEngine under test
    filter,         \* Spec: Option<&str> filter of the run
    pc,             \* Spec: position of the runner
    catalog,        \* Spec: the parsed catalog (test-set references, global envs)
    set_idx,        \* Spec: index of the test-set reference being processed
    test_set,       \* Spec: the parsed test set being run
    todo,           \* Spec: the test cases of test_set still to run, in order
    results,        \* Spec: the Vec<TestResult> being built
    cur,            \* Spec: the most recent single-test execution (inputs, calls, result)
    validator,      \* Spec: XustEngine.validator (the loaded schema, or NoValidator)
    attempted,      \* Spec: ghost - the test-case elements of the test sets run so far
    files_read,     \* Spec: ghost - the test-set files read so far, as read
    report,         \* Spec: ComplianceReport::new(results), once built
    output,         \* Spec: what the command line tool printed for the run
    argv,           \* SpecCli: the arguments of the process, after the program name
    catalog_exists, \* SpecCli: whether the catalog file of the suite is on disk
    exit_code       \* SpecCli: the exit code of the process, NotExited while it runs

vars == <<ev_assertion, ev_result, ev_outcome, suite, backend, filter, pc, catalog,
          set_idx, test_set, todo, results, cur, validator, attempted, files_read,
          report, output, argv, catalog_exists, exit_code>>

cliVars == <<argv, catalog_exists, exit_code>>

evalVars == <<ev_assertion, ev_result, ev_outcome>>
runVars == <<suite, backend, filter, pc, catalog, set_idx, test_set, todo, results,
             cur, validator, attempted, files_read, report, output>>

(***************************************************************************)
(* Bounds of the model.                                                    *)
(***************************************************************************)
MaxLen == 3        \* longest all-of / any-of member list drawn in SpecEval
MaxCount == 3      \* largest expected count of an assert-count
MaxItems == 3      \* largest number of items in an engine result
MaxSets == 2       \* most test-set elements in a catalog
MaxCases == 2      \* most test-case elements (XSD: test groups) in a test-set file
MaxTests == 4      \* most test elements met in one run
MaxDeps == 2       \* most dependency elements of a test case

(***************************************************************************)
(* Strings.  TLC strings support Len, SubSeq and \o; the Rust string       *)
(* methods the code calls are computed on them.                            *)
(***************************************************************************)
CharAt(s, i) == SubSeq(s, i, i)

IsWhitespace(c) == c \in {" ", "\n", "\t"}

\* str::contains
Contains(s, sub) ==
    \E i \in 1..(Len(s) - Len(sub) + 1) : SubSeq(s, i, i + Len(sub) - 1) = sub

RECURSIVE TrimStart(_)
TrimStart(s) ==
    IF Len(s) > 0 /\ IsWhitespace(CharAt(s, 1)) THEN TrimStart(SubSeq(s, 2, Len(s))) ELSE s

RECURSIVE TrimEnd(_)
TrimEnd(s) ==
    IF Len(s) > 0 /\ IsWhitespace(CharAt(s, Len(s)))
    THEN TrimEnd(SubSeq(s, 1, Len(s) - 1)) ELSE s

\* str::trim
Trim(s) == TrimEnd(TrimStart(s))

UpperLetters == "ABCDEFGHIJKLMNOPQRSTUVWXYZ"
LowerLetters == "abcdefghijklmnopqrstuvwxyz"

LowerChar(c) ==
    IF \E i \in 1..Len(UpperLetters) : CharAt(UpperLetters, i) = c
    THEN CharAt(LowerLetters, CHOOSE i \in 1..Len(UpperLetters) : CharAt(UpperLetters, i) = c)
    ELSE c

\* str::to_lowercase
RECURSIVE ToLowercase(_)
ToLowercase(s) ==
    IF Len(s) = 0 THEN s ELSE LowerChar(CharAt(s, 1)) \o ToLowercase(SubSeq(s, 2, Len(s)))

\* s.split_whitespace().collect::<Vec<_>>().join(" ")
RECURSIVE CollapseWs(_)
CollapseWs(s) ==
    IF Len(s) = 0 THEN s
    ELSE IF IsWhitespace(CharAt(s, 1))
         THEN LET rest == TrimStart(s) IN IF Len(rest) = 0 THEN rest ELSE " " \o CollapseWs(rest)
         ELSE CharAt(s, 1) \o CollapseWs(SubSeq(s, 2, Len(s)))

normalize_whitespace(s) == CollapseWs(Trim(s))

(***************************************************************************)
(* error::Error and its Display text.                                      *)
(***************************************************************************)
Unsupported == [variant |-> "Unsupported", detail |-> ""]
XPathError(m) == [variant |-> "XPathError", detail |-> m]
ParseError(m) == [variant |-> "ParseError", detail |-> m]
XsltError(m) == [variant |-> "XsltError", detail |-> m]
XsdError(m) == [variant |-> "XsdError", detail |-> m]
IoError(m) == [variant |-> "IoError", detail |-> m]
EngineError(m) == [variant |-> "EngineError", detail |-> m]

ErrorDisplay(e) ==
    CASE e.variant = "Unsupported" -> "Operation not supported by this engine"
      [] e.variant = "ParseError" -> "XML parsing error: " \o e.detail
      [] e.variant = "XPathError" -> "XPath evaluation error: " \o e.detail
      [] e.variant = "XQueryError" -> "XQuery evaluation error: " \o e.detail
      [] e.variant = "XsltError" -> "XSLT transformation error: " \o e.detail
      [] e.variant = "XsdError" -> "XSD validation error: " \o e.detail
      [] e.variant = "IoError" -> "IO error: " \o e.detail
      [] OTHER -> "Engine error: " \o e.detail

(***************************************************************************)
(* TestOutcome.                                                            *)
(***************************************************************************)
Pass == [tag |-> "Pass", msg |-> ""]
Fail(m) == [tag |-> "Fail", msg |-> m]
Error(m) == [tag |-> "Error", msg |-> m]
NotApplicable == [tag |-> "NotApplicable", msg |-> ""]
Skipped == [tag |-> "Skipped", msg |-> ""]

(***************************************************************************)
(* The execution outcome handed to check_assertion:                        *)
(* Result<&XQueryResult, &Error>.  An XQueryResult is its item count and   *)
(* its string_repr (count() is items.len(), is_empty() is items.is_empty() *)
(* in all three backends).                                                 *)
(***************************************************************************)
OkResult(n, s) == [ok |-> TRUE, count |-> n, str |-> s, err |-> Unsupported]
ErrResult(e) == [ok |-> FALSE, count |-> 0, str |-> "", err |-> e]

result_count(r) == r.count
result_is_empty(r) == r.count = 0
result_to_string(r) == r.str

(***************************************************************************)
(* Assertion (the recursive tagged union of qt3.rs).                       *)
(***************************************************************************)
AllOf(items) == [kind |-> "AllOf", items |-> items]
AnyOf(items) == [kind |-> "AnyOf", items |-> items]
Not(a) == [kind |-> "Not", inner |-> a]
AssertEq(v) == [kind |-> "AssertEq", value |-> v]
AssertCount(n) == [kind |-> "AssertCount", n |-> n]
AssertEmpty == [kind |-> "AssertEmpty"]
AssertTrue == [kind |-> "AssertTrue"]
AssertFalse == [kind |-> "AssertFalse"]
AssertType(t) == [kind |-> "AssertType", value |-> t]
AssertStringValue(v, ns) == [kind |-> "AssertStringValue", value |-> v, normalize_space |-> ns]
ExpectedError(c) == [kind |-> "Error", code |-> c]
AssertXml(x, hasXml) == [kind |-> "AssertXml", xml |-> x, has_xml |-> hasXml]
AssertDeepEq(v) == [kind |-> "AssertDeepEq", value |-> v]
AssertPermutation(v) == [kind |-> "AssertPermutation", value |-> v]
AssertCustom(x) == [kind |-> "Assert", value |-> x]
SerializationMatches == [kind |-> "SerializationMatches"]

(***************************************************************************)
(* check_assertion, one operator per match arm.  `result` is the           *)
(* execution outcome; the leaf arms read only it and the literal.          *)
(***************************************************************************)
assert_eq(expected, result) ==
    IF result.ok
    THEN LET actual == Trim(result_to_string(result))
             exp == Trim(expected)
         IN IF actual = exp THEN Pass
            ELSE Fail("Expected '" \o exp \o "', got '" \o actual \o "'")
    ELSE Fail("Expected value, got error: " \o ErrorDisplay(result.err))

\* A slip in the comparison: a result with more items than expected also passes.
assert_count_at_least(expected, result) ==
    IF result.ok
    THEN LET count == result_count(result)
         IN IF count >= expected THEN Pass
            ELSE Fail("Expected count " \o ToString(expected) \o ", got " \o ToString(count))
    ELSE Fail("Expected count, got error: " \o ErrorDisplay(result.err))

assert_count(expected, result) ==
    IF result.ok
    THEN LET count == result_count(result)
         IN IF count = expected THEN Pass
            ELSE Fail("Expected count " \o ToString(expected) \o ", got " \o ToString(count))
    ELSE Fail("Expected count, got error: " \o ErrorDisplay(result.err))

assert_empty(result) ==
    IF result.ok
    THEN IF result_is_empty(result) THEN Pass
         ELSE Fail("Expected empty, got " \o ToString(result_count(result)) \o " items")
    ELSE Fail("Expected empty, got error: " \o ErrorDisplay(result.err))

assert_true(result) ==
    IF result.ok
    THEN IF ToLowercase(Trim(result_to_string(result))) = "true" THEN Pass
         ELSE Fail("Expected true, got '" \o result_to_string(result) \o "'")
    ELSE Fail("Expected true, got error: " \o ErrorDisplay(result.err))

assert_false(result) ==
    IF result.ok
    THEN IF ToLowercase(Trim(result_to_string(result))) = "false" THEN Pass
         ELSE Fail("Expected false, got '" \o result_to_string(result) \o "'")
    ELSE Fail("Expected false, got error: " \o ErrorDisplay(result.err))

assert_type(result) ==
    IF result.ok THEN Pass
    ELSE Fail("Expected typed value, got error: " \o ErrorDisplay(result.err))

assert_string_value(value, normalize_space, result) ==
    IF result.ok
    THEN LET actual == IF normalize_space THEN normalize_whitespace(result_to_string(result))
                       ELSE result_to_string(result)
             expected == IF normalize_space THEN normalize_whitespace(value) ELSE value
         IN IF actual = expected THEN Pass
            ELSE Fail("Expected '" \o expected \o "', got '" \o actual \o "'")
    ELSE Fail("Expected string value, got error: " \o ErrorDisplay(result.err))

\* A stricter arm: the code of the error is compared with the expected code
expected_error_code_checked(expected_code, result) ==
    IF result.ok
    THEN Fail("Expected error " \o expected_code \o ", got result: " \o result_to_string(result))
    ELSE IF expected_code = "*" \/ Contains(ErrorDisplay(result.err), expected_code)
    THEN Pass
    ELSE Fail("Expected error " \o expected_code)

expected_error(expected_code, result) ==
    IF result.ok
    THEN Fail("Expected error " \o expected_code \o ", got result: " \o result_to_string(result))
    ELSE IF expected_code = "*" THEN Pass ELSE Pass

assert_xml(xml, has_xml, result) ==
    IF result.ok
    THEN IF has_xml
         THEN LET actual == result_to_string(result)
              IN IF Contains(actual, Trim(xml)) \/ Contains(xml, Trim(actual)) THEN Pass
                 ELSE Fail("XML mismatch: expected '" \o xml \o "', got '" \o actual \o "'")
         ELSE Pass
    ELSE Fail("Expected XML, got error: " \o ErrorDisplay(result.err))

assert_deep_eq(result) ==
    IF result.ok THEN Pass ELSE Fail("Got error: " \o ErrorDisplay(result.err))

assert_custom(xpath, result) ==
    IF result.ok
    THEN IF result_is_empty(result)
         THEN Fail("Custom assertion '" \o xpath \o "' with empty result")
         ELSE Pass
    ELSE Fail("Got error: " \o ErrorDisplay(result.err))

\* A slip in the Not arm: every outcome other than Pass is turned into Pass.
not_outcome_all_inverted(inner) ==
    CASE inner.tag = "Pass" -> Fail("Expected NOT to pass")
      [] OTHER -> Pass

\* The Not arm, applied to the outcome of the inner assertion.
not_outcome(inner) ==
    CASE inner.tag = "Pass" -> Fail("Expected NOT to pass")
      [] inner.tag = "Fail" -> Pass
      [] OTHER -> inner

(***************************************************************************)
(* The recursion.  check_assertion_at returns the outcome together with    *)
(* `visited`, the paths (index sequences from the root) of the assertion   *)
(* nodes check_assertion was called on, in call order: the root is <<>>,   *)
(* the i-th member of a list at path p is Append(p, i), the operand of a   *)
(* Not at path p is Append(p, 1).                                          *)
(***************************************************************************)
NoOutcome == [tag |-> "None", msg |-> ""]

RECURSIVE check_assertion_at(_, _, _)
RECURSIVE all_of(_, _, _, _)
RECURSIVE any_of(_, _, _, _, _)

\* A slip in the AllOf arm: the loop does not return at the first non-Pass member
\* but remembers it and goes on, returning the last non-Pass outcome.
RECURSIVE all_of_keep_last(_, _, _, _, _)
all_of_keep_last(assertions, i, result, path, last) ==
    IF i > Len(assertions)
    THEN [out |-> IF last = NoOutcome THEN Pass ELSE last, visited |-> <<>>]
    ELSE LET c == check_assertion_at(assertions[i], result, Append(path, i))
             rest == all_of_keep_last(assertions, i + 1, result, path,
                                      IF c.out.tag = "Pass" THEN last ELSE c.out)
         IN [out |-> rest.out, visited |-> c.visited \o rest.visited]

all_of_no_short_circuit(assertions, i, result, path) ==
    all_of_keep_last(assertions, i, result, path, NoOutcome)

\* A slip in the AnyOf arm: the first failure is kept instead of the last one.
RECURSIVE any_of_first_failure(_, _, _, _, _)
any_of_first_failure(assertions, i, result, path, last_failure) ==
    IF i > Len(assertions)
    THEN [out |-> IF last_failure = NoOutcome THEN Pass ELSE last_failure, visited |-> <<>>]
    ELSE LET c == check_assertion_at(assertions[i], result, Append(path, i))
         IN IF c.out.tag = "Pass"
            THEN [out |-> Pass, visited |-> c.visited]
            ELSE LET rest == any_of_first_failure(assertions, i + 1, result, path,
                                 IF last_failure = NoOutcome THEN c.out ELSE last_failure)
                 IN [out |-> rest.out, visited |-> c.visited \o rest.visited]

\* A slip in the AnyOf arm: a list in which no member passed fails, the empty list
\* included (last_failure.unwrap_or(Fail))
RECURSIVE any_of_empty_fails(_, _, _, _, _)
any_of_empty_fails(assertions, i, result, path, last_failure) ==
    IF i > Len(assertions)
    THEN [out |-> IF last_failure = NoOutcome THEN Fail("No assertion passed")
                  ELSE last_failure,
          visited |-> <<>>]
    ELSE LET c == check_assertion_at(assertions[i], result, Append(path, i))
         IN IF c.out.tag = "Pass"
            THEN [out |-> Pass, visited |-> c.visited]
            ELSE LET rest == any_of_empty_fails(assertions, i + 1, result, path, c.out)
                 IN [out |-> rest.out, visited |-> c.visited \o rest.visited]

\* for a in assertions { match check(a) { Pass => continue, other => return other } } Pass
all_of(assertions, i, result, path) ==
    IF i > Len(assertions) THEN [out |-> Pass, visited |-> <<>>]
    ELSE LET c == check_assertion_at(assertions[i], result, Append(path, i))
         IN IF c.out.tag = "Pass"
            THEN LET rest == all_of(assertions, i + 1, result, path)
                 IN [out |-> rest.out, visited |-> c.visited \o rest.visited]
            ELSE c

\* let mut last_failure = None; for a in assertions { match check(a) {
\*   Pass => return Pass, other => last_failure = Some(other) } }
\* last_failure.unwrap_or(Pass)
any_of(assertions, i, result, path, last_failure) ==
    IF i > Len(assertions)
    THEN [out |-> IF last_failure = NoOutcome THEN Pass ELSE last_failure, visited |-> <<>>]
    ELSE LET c == check_assertion_at(assertions[i], result, Append(path, i))
         IN IF c.out.tag = "Pass"
            THEN [out |-> Pass, visited |-> c.visited]
            ELSE LET rest == any_of(assertions, i + 1, result, path, c.out)
                 IN [out |-> rest.out, visited |-> c.visited \o rest.visited]

check_assertion_at(assertion, result, path) ==
    LET leaf(o) == [out |-> o, visited |-> <<path>>]
    IN CASE assertion.kind = "AllOf" ->
              LET l == all_of(assertion.items, 1, result, path)
              IN [out |-> l.out, visited |-> <<path>> \o l.visited]
         [] assertion.kind = "AnyOf" ->
              LET l == any_of(assertion.items, 1, result, path, NoOutcome)
              IN [out |-> l.out, visited |-> <<path>> \o l.visited]
         [] assertion.kind = "Not" ->
              LET c == check_assertion_at(assertion.inner, result, Append(path, 1))
              IN [out |-> not_outcome(c.out), visited |-> <<path>> \o c.visited]
         [] assertion.kind = "AssertEq" -> leaf(assert_eq(assertion.value, result))
         [] assertion.kind = "AssertCount" -> leaf(assert_count(assertion.n, result))
         [] assertion.kind = "AssertEmpty" -> leaf(assert_empty(result))
         [] assertion.kind = "AssertTrue" -> leaf(assert_true(result))
         [] assertion.kind = "AssertFalse" -> leaf(assert_false(result))
         [] assertion.kind = "AssertType" -> leaf(assert_type(result))
         [] assertion.kind = "AssertStringValue" ->
              leaf(assert_string_value(assertion.value, assertion.normalize_space, result))
         [] assertion.kind = "Error" -> leaf(expected_error(assertion.code, result))
         [] assertion.kind = "AssertXml" ->
              leaf(assert_xml(assertion.xml, assertion.has_xml, result))
         [] assertion.kind = "AssertDeepEq" -> leaf(assert_deep_eq(result))
         [] assertion.kind = "AssertPermutation" -> leaf(assert_deep_eq(result))
         [] assertion.kind = "Assert" -> leaf(assert_custom(assertion.value, result))
         [] assertion.kind = "SerializationMatches" -> leaf(NotApplicable)

check_assertion(assertion, result) == check_assertion_at(assertion, result, <<>>).out


(***************************************************************************)
(* SpecEval: check_assertion applied to inputs drawn from bounded sets.    *)
(***************************************************************************)
SeqUpTo(S, n) == UNION {[1..k -> S] : k \in 0..n}

ResultStrings == {"true", " FALSE\n", "a  b"}

EngineErrors == {Unsupported, XPathError("XPST0003")}

ExecutionOutcomes ==
    {OkResult(0, "")}
    \cup {OkResult(n, s) : n \in 1..MaxItems, s \in ResultStrings}
    \cup {ErrResult(e) : e \in EngineErrors}

LeafAssertions ==
    {AssertCount(n) : n \in 0..MaxCount}
    \cup {AssertEmpty, AssertTrue, AssertFalse, SerializationMatches,
          AssertEq("true"), AssertEq(" a  b "), AssertType("xs:integer"),
          AssertStringValue("a b", TRUE), AssertStringValue("a b", FALSE),
          ExpectedError("*"), ExpectedError("XPST0003"),
          AssertXml("a", TRUE), AssertXml("", FALSE),
          AssertDeepEq("1, 2"), AssertPermutation("1, 2"), AssertCustom("$result = 1")}

\* The assertions drawn as members of the all-of / any-of lists.
MemberAssertions ==
    {AssertCount(1), AssertEmpty, AssertTrue, ExpectedError("*"), SerializationMatches,
     Not(AssertEmpty), AllOf(<<>>), AnyOf(<<AssertEmpty, AssertTrue>>)}

Assertions ==
    LeafAssertions
    \cup {Not(a) : a \in LeafAssertions \cup MemberAssertions}
    \cup {Not(Not(a)) : a \in MemberAssertions}
    \cup {Not(AnyOf(<<>>))}
    \cup {AllOf(l) : l \in SeqUpTo(MemberAssertions, MaxLen)}
    \cup {AnyOf(l) : l \in SeqUpTo(MemberAssertions, MaxLen)}

NotEvaluated == [out |-> NoOutcome, visited |-> <<>>]

\* The exit code of a process that has not exited
NotExited == -1

\* No command line tool is involved
CliIdle ==
    /\ argv = <<>>
    /\ catalog_exists = TRUE
    /\ exit_code = NotExited

RunIdle ==
    /\ suite = "none"
    /\ backend = "none"
    /\ filter = ""
    /\ pc = "idle"
    /\ catalog = <<>>
    /\ set_idx = 0
    /\ test_set = <<>>
    /\ todo = <<>>
    /\ results = <<>>
    /\ cur = <<>>
    /\ validator = ""
    /\ attempted = <<>>
    /\ files_read = <<>>
    /\ report = <<>>
    /\ output = <<>>
    /\ CliIdle

InitEval ==
    /\ ev_assertion \in Assertions
    /\ ev_result \in ExecutionOutcomes
    /\ ev_outcome = NotEvaluated
    /\ RunIdle

\* One call check_assertion(&assertion, result, engine) from run_test_case.
CheckAssertion ==
    /\ pc = "idle"
    /\ ev_outcome = NotEvaluated
    /\ ev_outcome' = check_assertion_at(ev_assertion, ev_result, <<>>)
    /\ UNCHANGED <<ev_assertion, ev_result>>
    /\ UNCHANGED runVars
    /\ UNCHANGED cliVars

NextEval == CheckAssertion

SpecEval == InitEval /\ [][NextEval]_vars

Evaluated == pc = "idle" /\ ev_outcome # NotEvaluated

\* The members of the root list that check_assertion was called on, in call order.
MembersVisited == SelectSeq(ev_outcome.visited, LAMBDA p : Len(p) = 1)

FirstN(n) == [i \in 1..n |-> <<i>>]

\* Index of the first member whose outcome satisfies P, 0 when there is none.
FirstIndex(l, P(_)) ==
    IF \E i \in 1..Len(l) : P(check_assertion(l[i], ev_result))
    THEN CHOOSE i \in 1..Len(l) :
            /\ P(check_assertion(l[i], ev_result))
            /\ \A j \in 1..(i - 1) : ~P(check_assertion(l[j], ev_result))
    ELSE 0

IsPass(o) == o.tag = "Pass"
IsNotPass(o) == o.tag # "Pass"

\* C1: AllOf(L) evaluates the members of L in list order, returns the outcome of
\* the first member that is not Pass without evaluating the members after it,
\* and returns Pass when every member passes (in particular when L is empty).
C1_AllOfFirstNonPass ==
    (Evaluated /\ ev_assertion.kind = "AllOf") =>
        LET l == ev_assertion.items
            k == FirstIndex(l, IsNotPass)
        IN /\ k = 0 => (ev_outcome.out = Pass /\ MembersVisited = FirstN(Len(l)))
           /\ k > 0 => /\ ev_outcome.out = check_assertion(l[k], ev_result)
                       /\ MembersVisited = FirstN(k)

C1_Witness ==
    /\ Evaluated
    /\ ev_assertion.kind = "AllOf"
    /\ Len(ev_assertion.items) = 3
    /\ FirstIndex(ev_assertion.items, IsNotPass) = 2
    /\ check_assertion(ev_assertion.items[3], ev_result).tag = "Fail"
    /\ ev_outcome.out.tag = "NotApplicable"

\* C2: AnyOf(L) returns Pass at the first member that passes, without evaluating
\* the members after it; when no member passes it returns the outcome of the
\* last member evaluated.
C2_AnyOfFirstPass ==
    (Evaluated /\ ev_assertion.kind = "AnyOf") =>
        LET l == ev_assertion.items
            k == FirstIndex(l, IsPass)
        IN /\ k > 0 => (ev_outcome.out = Pass /\ MembersVisited = FirstN(k))
           /\ (k = 0 /\ Len(l) > 0) =>
                  /\ ev_outcome.out = check_assertion(l[Len(l)], ev_result)
                  /\ MembersVisited = FirstN(Len(l))

\* AnyOf([Fail, Pass, Fail]) is Pass and its third member is not evaluated.
C2_Witness ==
    /\ Evaluated
    /\ ev_assertion.kind = "AnyOf"
    /\ Len(ev_assertion.items) = 3
    /\ check_assertion(ev_assertion.items[1], ev_result).tag = "Fail"
    /\ check_assertion(ev_assertion.items[2], ev_result).tag = "Pass"
    /\ check_assertion(ev_assertion.items[3], ev_result).tag = "Fail"
    /\ ev_outcome.out = Pass
    /\ MembersVisited = <<(<<1>>), (<<2>>)>>

\* C3: Not(a) is Fail when a is Pass, Pass when a is Fail, and the outcome of a
\* unchanged when that is Error, NotApplicable or Skipped.
C3_NotInverts ==
    (Evaluated /\ ev_assertion.kind = "Not") =>
        LET inner == check_assertion(ev_assertion.inner, ev_result)
        IN /\ inner.tag = "Pass" => ev_outcome.out.tag = "Fail"
           /\ inner.tag = "Fail" => ev_outcome.out = Pass
           /\ inner.tag \in {"Error", "NotApplicable", "Skipped"} => ev_outcome.out = inner

C3_Witness ==
    /\ Evaluated
    /\ ev_assertion.kind = "Not"
    /\ check_assertion(ev_assertion.inner, ev_result) = NotApplicable
    /\ ev_outcome.out = NotApplicable

\* C4: AssertCount(n) on an Ok result of m items is Pass iff m = n and otherwise
\* Fail("Expected count n, got m"); on an engine Err it is Fail, never Pass.
C4_AssertCount ==
    (Evaluated /\ ev_assertion.kind = "AssertCount") =>
        LET n == ev_assertion.n
            m == ev_result.count
        IN /\ ev_result.ok =>
                 /\ (ev_outcome.out = Pass) <=> (m = n)
                 /\ m # n => ev_outcome.out =
                        Fail("Expected count " \o ToString(n) \o ", got " \o ToString(m))
                 /\ (n = 3 /\ m = 2) => ev_outcome.out = Fail("Expected count 3, got 2")
           /\ ~ev_result.ok => ev_outcome.out.tag = "Fail"

C4_Witness ==
    /\ Evaluated
    /\ ev_assertion = AssertCount(3)
    /\ ev_result.ok /\ ev_result.count = 2
    /\ ev_outcome.out = Fail("Expected count 3, got 2")


(***************************************************************************)
(* The engine seen by the runners.  What an engine call returns is an      *)
(* input of the model (an "oracle" record fixed per test): a value, an     *)
(* Err, or a fault (a panic inside the backend).  Which calls are made,    *)
(* and in which order, is computed from the code and returned as `calls`.  *)
(***************************************************************************)
Backends == {"xee", "xrust", "xust"}

Returned(v) == [fault |-> FALSE, value |-> v]
\* A call that panics returns nothing: `value` only keeps the type of the call.
Faulted(v) == [fault |-> TRUE, value |-> v]

\* The panic payload of the faults drawn.
PanicMessage == "index out of bounds"

(***************************************************************************)
(* QT3: Dependency, Environment, EnvironmentRef, TestCase.                 *)
(***************************************************************************)
Dependency(t, v, sat) == [dep_type |-> t, value |-> v, satisfied |-> sat]
Source(role, file) == [role |-> role, file |-> file]
Environment(name, sources) == [name |-> name, sources |-> sources]

NoEnvironment == [kind |-> "None"]
Named(n) == [kind |-> "Named", name |-> n]
Inline(env) == [kind |-> "Inline", env |-> env]

TestCase(name, env, deps, result) ==
    [name |-> name, environment |-> env, dependencies |-> deps, result |-> result]

TestResult(id, outcome, actual) == [test_id |-> id, outcome |-> outcome, actual |-> actual]

UnsupportedFeatures ==
    <<"serialization", "schema-import", "schema-validation", "static-typing", "module",
      "collection-stability", "directory-as-collection-uri", "higherOrderFunctions">>

check_dependency(dependency, engine) ==
    CASE dependency.dep_type = "spec" ->
            LET value == dependency.value
            IN IF engine = "xee"
               THEN \/ Contains(value, "XP31") \/ Contains(value, "XP30")
                    \/ Contains(value, "XP20") \/ Contains(value, "XP10")
               ELSE IF engine = "xrust"
               THEN Contains(value, "XP10") \/ Contains(value, "XP20")
               ELSE \/ Contains(value, "XQ31") \/ Contains(value, "XQ30")
                    \/ Contains(value, "XP31") \/ Contains(value, "XP30")
      [] dependency.dep_type = "feature" ->
            ~\E i \in 1..Len(UnsupportedFeatures) :
                Contains(dependency.value, UnsupportedFeatures[i])
      [] OTHER -> dependency.satisfied

\* Index of the first dependency check_dependency rejects, 0 when all are satisfied
\* (the for loop of run_test_case returns at the first one).
FirstUnsatisfied(deps, engine) ==
    IF \E i \in 1..Len(deps) : ~check_dependency(deps[i], engine)
    THEN CHOOSE i \in 1..Len(deps) :
            /\ ~check_dependency(deps[i], engine)
            /\ \A j \in 1..(i - 1) : check_dependency(deps[j], engine)
    ELSE 0

\* match &test_case.environment { Named(name) => environments.get(name).cloned(), ... }
resolve_environment(test_case, environments) ==
    CASE test_case.environment.kind = "Named" ->
            IF test_case.environment.name \in DOMAIN environments
            THEN [some |-> TRUE, env |-> environments[test_case.environment.name]]
            ELSE [some |-> FALSE, env |-> Environment("", <<>>)]
      [] test_case.environment.kind = "Inline" ->
            [some |-> TRUE, env |-> test_case.environment.env]
      [] OTHER -> [some |-> FALSE, env |-> Environment("", <<>>)]

\* env.sources.iter().find(|s| s.role == "."): index of the first one, 0 for None
find_context_source(sources) ==
    IF \E i \in 1..Len(sources) : sources[i].role = "."
    THEN CHOOSE i \in 1..Len(sources) :
            /\ sources[i].role = "."
            /\ \A j \in 1..(i - 1) : sources[j].role # "."
    ELSE 0

Call(op, arg) == [op |-> op, arg |-> arg]

Finished(result, calls) == [fault |-> FALSE, result |-> result, calls |-> calls]
Panicked(calls) ==
    [fault |-> TRUE, result |-> TestResult("", Error(PanicMessage), ""), calls |-> calls]

\* The step "Execute test" and "Check assertion" of run_test_case, from the call of
\* engine.xpath on: `before` are the engine calls made so far.
qt3_execute(test_case, eng, before) ==
    LET calls == Append(before, Call("xpath", "test"))
    IN IF eng.xpath.fault THEN Panicked(calls)
       ELSE LET result == eng.xpath.value
                outcome == check_assertion(test_case.result, result)
                actual == IF result.ok THEN result_to_string(result)
                          ELSE "Error: " \o ErrorDisplay(result.err)
            IN Finished(TestResult(test_case.name, outcome, actual), calls)

\* A slip in the dependency loop: the unsatisfied dependency is noticed only after
\* the test has been executed.
qt3_run_test_case_late_dependencies(engine, test_case, environments, eng) ==
    LET ran == qt3_execute(test_case, eng, <<Call("parse", "<empty/>")>>)
    IN IF FirstUnsatisfied(test_case.dependencies, engine) # 0 /\ ~ran.fault
       THEN Finished(TestResult(test_case.name, NotApplicable, "Dependency not satisfied"),
                     ran.calls)
       ELSE ran

\* qt3::run_test_case
qt3_run_test_case(engine, test_case, environments, eng) ==
    LET d == FirstUnsatisfied(test_case.dependencies, engine)
    IN IF d # 0
       THEN LET dep == test_case.dependencies[d]
            IN Finished(TestResult(test_case.name, NotApplicable,
                            "Dependency not satisfied: " \o dep.dep_type \o " = " \o dep.value),
                        <<>>)
       ELSE
       LET env == resolve_environment(test_case, environments)
           c == IF env.some THEN find_context_source(env.env.sources) ELSE 0
       IN IF c # 0
          THEN LET calls == <<Call("parse_file", env.env.sources[c].file)>>
               IN IF eng.parse_file.fault THEN Panicked(calls)
                  ELSE IF ~eng.parse_file.value.ok
                  THEN Finished(TestResult(test_case.name,
                                    Error("Failed to load context: "
                                          \o ErrorDisplay(eng.parse_file.value.err)), ""),
                                calls)
                  ELSE qt3_execute(test_case, eng, calls)
          ELSE \* engine.parse("<empty/>") is well-formed input: it returns Ok
               qt3_execute(test_case, eng, <<Call("parse", "<empty/>")>>)


(***************************************************************************)
(* XSLT 3.0: Source, Environment, TestCase, run_test_case.                 *)
(***************************************************************************)
None == [some |-> FALSE, v |-> ""]
Some(v) == [some |-> TRUE, v |-> v]

\* Result<XDocument> and Result<String> of parse, parse_file and transform
OkDoc == [ok |-> TRUE, err |-> Unsupported]
ErrDoc(e) == [ok |-> FALSE, err |-> e]

XsltSource(role, file, content) == [role |-> role, file |-> file, content |-> content]
XsltTestCase(name, environment, stylesheet, result) ==
    [name |-> name, environment |-> environment, stylesheet |-> stylesheet, result |-> result]

AssertResult(v) == [kind |-> "AssertResult", value |-> v]
ExpectedResultError(c) == [kind |-> "Error", value |-> c]

NotFound == "No such file or directory (os error 2)"

\* XEngine::transform -> xslt_to_string: XustEngine::transform is Err(Unsupported);
\* for the other backends the oracle says what the stylesheet does.
engine_transform(engine, eng) ==
    IF engine = "xust" THEN Returned(ErrDoc(Unsupported)) ELSE eng.transform

\* The match on engine.transform's result at the end of run_test_case
xslt_transform_outcome(test_case, r) ==
    IF r.ok THEN Pass
    ELSE IF test_case.result.kind = "Error" THEN Pass
    ELSE Fail("Transform failed: " \o ErrorDisplay(r.err))

xslt_transform(engine, test_case, eng, before) ==
    LET calls == Append(before, Call("transform", test_case.stylesheet.v))
        t == engine_transform(engine, eng)
    IN IF t.fault THEN Panicked(calls)
       ELSE Finished(TestResult(test_case.name, xslt_transform_outcome(test_case, t.value),
                                IF t.value.ok THEN "output"
                                ELSE IF test_case.result.kind = "Error"
                                     THEN "Expected error: " \o ErrorDisplay(t.value.err)
                                     ELSE ErrorDisplay(t.value.err)),
                     calls)

\* context_source.or(env.sources.first()): index of the source used, 0 for None
xslt_pick_source(sources) ==
    IF find_context_source(sources) # 0 THEN find_context_source(sources)
    ELSE IF Len(sources) > 0 THEN 1 ELSE 0

\* xslt30::run_test_case
xslt_run_test_case(engine, test_case, environments, eng) ==
    IF ~test_case.stylesheet.some
    THEN Finished(TestResult(test_case.name, NotApplicable,
                             "No stylesheet specified in test case"), <<>>)
    ELSE IF test_case.environment.some /\ test_case.environment.v \notin DOMAIN environments
    THEN Finished(TestResult(test_case.name,
                             Error("Environment not found: " \o test_case.environment.v), ""),
                  <<>>)
    ELSE IF ~eng.read_stylesheet
    THEN Finished(TestResult(test_case.name,
                             Error("Failed to read stylesheet: " \o NotFound), ""), <<>>)
    ELSE
    LET sources == IF test_case.environment.some
                   THEN environments[test_case.environment.v].sources ELSE <<>>
        k == xslt_pick_source(sources)
    IN IF k # 0 /\ sources[k].content.some
       THEN LET calls == <<Call("parse", sources[k].content.v)>>
            IN IF eng.parse.fault THEN Panicked(calls)
               ELSE IF ~eng.parse.value.ok
               THEN Finished(TestResult(test_case.name,
                                 Error("Failed to parse source: "
                                       \o ErrorDisplay(eng.parse.value.err)), ""), calls)
               ELSE xslt_transform(engine, test_case, eng, calls)
       ELSE IF k # 0 /\ sources[k].file.some
       THEN LET calls == <<Call("parse_file", sources[k].file.v)>>
            IN IF eng.parse_file.fault THEN Panicked(calls)
               ELSE IF ~eng.parse_file.value.ok
               THEN Finished(TestResult(test_case.name,
                                 Error("Failed to load source \"" \o sources[k].file.v
                                       \o "\": " \o ErrorDisplay(eng.parse_file.value.err)),
                                 ""), calls)
               ELSE xslt_transform(engine, test_case, eng, calls)
       ELSE xslt_transform(engine, test_case, eng, <<Call("parse", "<empty/>")>>)


(***************************************************************************)
(* XSD: SchemaTest, InstanceTest, the schema operations of XEngine,        *)
(* run_schema_test and run_instance_test.  `validator` is the schema the   *)
(* xust backend holds (NoValidator when none was loaded).                  *)
(***************************************************************************)
NoValidator == ""

SchemaTest(name, schema_document, expected_validity) ==
    [name |-> name, schema_document |-> schema_document,
     expected_validity |-> expected_validity]
InstanceTest(name, instance_document, expected_validity) ==
    [name |-> name, instance_document |-> instance_document,
     expected_validity |-> expected_validity]

OkBool(b) == [ok |-> TRUE, valid |-> b, err |-> Unsupported]
ErrBool(e) == [ok |-> FALSE, valid |-> FALSE, err |-> e]

EngineOp(fault, value, calls, v) ==
    [fault |-> fault, value |-> value, calls |-> calls, validator |-> v]

\* XEngine::load_schema_file: Unsupported for xee and xrust; xust keeps the
\* validator of a successful load
load_schema_file(engine, path, eng, v) ==
    LET calls == <<Call("load_schema_file", path)>>
    IN IF engine # "xust" THEN EngineOp(FALSE, ErrDoc(Unsupported), calls, v)
       ELSE IF eng.load_schema.fault THEN EngineOp(TRUE, ErrDoc(Unsupported), calls, v)
       ELSE IF eng.load_schema.value.ok THEN EngineOp(FALSE, OkDoc, calls, path)
       ELSE EngineOp(FALSE, eng.load_schema.value, calls, v)

\* XEngine::validate_schema
validate_schema(engine, schema_path, eng, v) ==
    LET l == load_schema_file(engine, schema_path, eng, v)
    IN IF l.fault THEN EngineOp(TRUE, ErrBool(Unsupported), l.calls, l.validator)
       ELSE IF l.value.ok THEN EngineOp(FALSE, OkBool(TRUE), l.calls, l.validator)
       ELSE IF l.value.err = Unsupported
       THEN EngineOp(FALSE, ErrBool(Unsupported), l.calls, l.validator)
       ELSE EngineOp(FALSE, OkBool(FALSE), l.calls, l.validator)

\* A slip in validate_instance: the result of load_schema_file is dropped, so after
\* a failed load the instance is validated against the validator left in the engine
validate_instance_load_unchecked(engine, instance_path, schema_path, eng, v) ==
    LET l == load_schema_file(engine, schema_path, eng, v)
        c2 == l.calls \o <<Call("parse", instance_path), Call("validate", l.validator)>>
    IN IF l.fault THEN EngineOp(TRUE, ErrBool(Unsupported), l.calls, l.validator)
       ELSE IF l.validator = NoValidator
       THEN EngineOp(FALSE, ErrBool(XsdError("No schema loaded")), c2, l.validator)
       ELSE EngineOp(FALSE, OkBool(eng.validate.value), c2, l.validator)

\* XEngine::validate_instance
validate_instance(engine, instance_path, schema_path, eng, v) ==
    LET l == load_schema_file(engine, schema_path, eng, v)
    IN IF l.fault THEN EngineOp(TRUE, ErrBool(Unsupported), l.calls, l.validator)
       ELSE IF ~l.value.ok THEN EngineOp(FALSE, ErrBool(l.value.err), l.calls, l.validator)
       ELSE IF ~eng.read_instance
       THEN EngineOp(FALSE, ErrBool(EngineError("Failed to read instance: " \o NotFound)),
                     l.calls, l.validator)
       ELSE LET c1 == Append(l.calls, Call("parse", instance_path))
            IN IF eng.parse.fault THEN EngineOp(TRUE, ErrBool(Unsupported), c1, l.validator)
               ELSE IF ~eng.parse.value.ok
               THEN EngineOp(FALSE, ErrBool(eng.parse.value.err), c1, l.validator)
               ELSE LET c2 == Append(c1, Call("validate", l.validator))
                    IN IF eng.validate.fault
                       THEN EngineOp(TRUE, ErrBool(Unsupported), c2, l.validator)
                       ELSE IF l.validator = NoValidator
                       THEN EngineOp(FALSE, ErrBool(XsdError("No schema loaded")), c2,
                                     l.validator)
                       ELSE EngineOp(FALSE, OkBool(eng.validate.value), c2, l.validator)

\* Validity::from_str; a Validity is written as its Debug text
Validity_from_str(s) ==
    LET lower == ToLowercase(s)
    IN IF lower = "valid" THEN "Valid"
       ELSE IF lower = "invalid" THEN "Invalid"
       ELSE "Indeterminate"

\* A slip in the Err arm of the match: an engine error passes every test that is not
\* expected Valid (expected_validity != Validity::Valid)
validity_outcome_error_passes(r, expected_validity, prefix) ==
    IF r.ok
    THEN LET actual_validity == IF r.valid THEN "Valid" ELSE "Invalid"
         IN IF actual_validity = expected_validity THEN Pass
            ELSE Fail("Expected " \o expected_validity \o ", got " \o actual_validity)
    ELSE IF expected_validity # "Valid" THEN Pass
         ELSE Fail(prefix \o ErrorDisplay(r.err))

\* The match on the validation result shared by run_schema_test and run_instance_test:
\* `prefix` is the text the Err arm puts before the error.
validity_outcome(r, expected_validity, prefix) ==
    IF r.ok
    THEN LET actual_validity == IF r.valid THEN "Valid" ELSE "Invalid"
         IN IF actual_validity = expected_validity THEN Pass
            ELSE Fail("Expected " \o expected_validity \o ", got " \o actual_validity)
    ELSE IF expected_validity = "Invalid" THEN Pass
         ELSE Fail(prefix \o ErrorDisplay(r.err))

validity_actual(r) ==
    IF r.ok THEN (IF r.valid THEN "Valid" ELSE "Invalid")
    ELSE "Error: " \o ErrorDisplay(r.err)

XsdFinished(result, calls, v) ==
    [fault |-> FALSE, result |-> result, calls |-> calls, validator |-> v]
XsdPanicked(calls, v) ==
    [fault |-> TRUE, result |-> TestResult("", Error(PanicMessage), ""), calls |-> calls,
     validator |-> v]

\* xsd::run_schema_test
run_schema_test(engine, test, group_name, eng, v) ==
    LET test_id == group_name \o "/" \o test.name
        r == validate_schema(engine, test.schema_document, eng, v)
    IN IF r.fault THEN XsdPanicked(r.calls, r.validator)
       ELSE XsdFinished(TestResult(test_id,
                            validity_outcome(r.value, test.expected_validity,
                                             "Schema validation error: "),
                            validity_actual(r.value)),
                        r.calls, r.validator)

\* xsd::run_instance_test; schema_path is an Option
run_instance_test(engine, test, schema_path, group_name, eng, v) ==
    LET test_id == group_name \o "/" \o test.name
    IN IF ~schema_path.some
       THEN XsdFinished(TestResult(test_id, NotApplicable, "No schema for validation"),
                        <<>>, v)
       ELSE LET r == validate_instance(engine, test.instance_document, schema_path.v, eng, v)
            IN IF r.fault THEN XsdPanicked(r.calls, r.validator)
               ELSE XsdFinished(TestResult(test_id,
                                    validity_outcome(r.value, test.expected_validity,
                                                     "Validation error: "),
                                    validity_actual(r.value)),
                                r.calls, r.validator)


(***************************************************************************)
(* Catalogs and test-set files.  A document is modelled by what the        *)
(* parser's queries return on it: the attribute values of its elements, in *)
(* document order, and whether it can be read and parsed at all.           *)
(***************************************************************************)
Suites == {"qt3", "xslt30", "xsd"}

EmptyMap == [n \in {} |-> Environment("", <<>>)]

\* HashMap::insert of every entry of `local` into `global`
Overlay(global, local) ==
    [n \in DOMAIN global \cup DOMAIN local |->
        IF n \in DOMAIN local THEN local[n] ELSE global[n]]

\* An environment element of a catalog or test-set file and its source children,
\* with the attribute values as written ("" for an attribute that is absent)
SourceElement(role, file) == [role |-> role, file |-> file]
EnvironmentElement(name, sources) == [name |-> name, sources |-> sources]

\* qt3::parse_environment_with_prefix: a source child with a file is kept, its role
\* is the role attribute or "." when that is empty or absent
parse_environment_with_prefix(el, base_dir) ==
    LET kept == SelectSeq(el.sources, LAMBDA x : Trim(x.file) # "")
    IN Environment(Trim(el.name),
                   [i \in 1..Len(kept) |->
                       Source(IF Trim(kept[i].role) = "" THEN "." ELSE Trim(kept[i].role),
                              base_dir \o Trim(kept[i].file))])

TestSetRef(name, file) == [name |-> name, file |-> file]
\* A parsed reference; `decl` is a ghost, the position of its element in the catalog
Declared(name, file, decl) == [name |-> name, file |-> file, decl |-> decl]

\* Path::file_stem of a relative href: the last component without its extension
RECURSIVE LastIndexOf(_, _, _)
LastIndexOf(s, c, i) ==
    IF i = 0 THEN 0
    ELSE IF CharAt(s, i) = c THEN i
    ELSE LastIndexOf(s, c, i - 1)

file_stem(path) ==
    LET slash == LastIndexOf(path, "/", Len(path))
        base == SubSeq(path, slash + 1, Len(path))
        dot == LastIndexOf(base, ".", Len(base))
    IN IF dot > 1 THEN SubSeq(base, 1, dot - 1) ELSE base

Indexed(elements) == [i \in 1..Len(elements) |-> [pos |-> i, el |-> elements[i]]]

Catalog(test_sets, environments) == [test_sets |-> test_sets, environments |-> environments]

\* A slip: the attribute loop of qt3::parse_catalog pushes its references as well
parse_catalog_both_loops(doc) ==
    LET kept == SelectSeq(Indexed(doc.test_sets),
                          LAMBDA x : Trim(x.el.name) # "" /\ Trim(x.el.file) # "")
        refs == [i \in 1..Len(kept) |->
                    Declared(kept[i].el.name, kept[i].el.file, kept[i].pos)]
    IN Catalog(refs \o refs, doc.environments)

\* qt3::parse_catalog and xslt30::parse_catalog: the counted loop keeps the
\* references whose name and file are both non-empty (the attribute loop before it
\* in qt3 matches string items only and attribute nodes are not strings).
parse_catalog(doc) ==
    LET kept == SelectSeq(Indexed(doc.test_sets),
                          LAMBDA x : Trim(x.el.name) # "" /\ Trim(x.el.file) # "")
    IN Catalog([i \in 1..Len(kept) |-> Declared(kept[i].el.name, kept[i].el.file, kept[i].pos)],
               doc.environments)

\* xsd::parse_suite: keeps the references with a non-empty href; the name of a
\* test set is the file stem of its path (run_xsd_tests)
parse_suite(doc) ==
    LET kept == SelectSeq(Indexed(doc.test_sets), LAMBDA x : Trim(x.el.file) # "")
    IN Catalog([i \in 1..Len(kept) |->
                   Declared(file_stem(kept[i].el.file), kept[i].el.file, kept[i].pos)],
               EmptyMap)

\* if let Some(f) = filter { name.contains(f) } (xsd: href.contains(f))
filter_matches(s, ref, f) ==
    IF ~f.some THEN TRUE
    ELSE IF s = "xsd" THEN Contains(ref.file, f.v)
    ELSE Contains(ref.name, f.v)

TestSet(environments, items) == [environments |-> environments, items |-> items]
Qt3Item(pos, test, eng) == [pos |-> pos, kind |-> "qt3", test |-> test, eng |-> eng]
XsltItem(pos, test, eng) == [pos |-> pos, kind |-> "xslt30", test |-> test, eng |-> eng]

\* qt3::parse_test_set: the global environments overlaid with the local ones; a
\* test-case element is kept when parse_test_case returned Ok, that is when every
\* query on it evaluated (`well_formed`)
qt3_parse_test_set(doc, global_envs) ==
    LET kept == SelectSeq(Indexed(doc.cases), LAMBDA x : x.el.well_formed)
    IN TestSet(Overlay(global_envs, doc.environments),
               [i \in 1..Len(kept) |-> Qt3Item(kept[i].pos, kept[i].el.test, kept[i].el.eng)])

\* The environment loop of xslt30::parse_test_set: every source child is kept with
\* the role attribute as written (empty when absent) and its file, if it has one
xslt_parse_environment(el, base_dir) ==
    Environment(Trim(el.name),
                [i \in 1..Len(el.sources) |->
                    XsltSource(Trim(el.sources[i].role),
                               IF Trim(el.sources[i].file) # ""
                               THEN Some(base_dir \o Trim(el.sources[i].file)) ELSE None,
                               None)])

\* xslt30::parse_test_set: the local environments only; a test-case element with an
\* empty name is skipped; the result element is not read, every test case gets
\* ExpectedResult::AssertResult(String::new())
xslt_parse_test_set(doc, global_envs) ==
    LET kept == SelectSeq(Indexed(doc.cases), LAMBDA x : Trim(x.el.test.name) # "")
    IN TestSet(doc.environments,
               [i \in 1..Len(kept) |->
                   XsltItem(kept[i].pos, [kept[i].el.test EXCEPT !.result = AssertResult("")],
                            kept[i].el.eng)])


XsdItem(pos, kind, test, eng, group, schema_path) ==
    [pos |-> pos, kind |-> kind, test |-> test, eng |-> eng, group |-> group,
     schema_path |-> schema_path]

\* Number of schemaTest and instanceTest elements of a testGroup element
xsd_group_size(grp) ==
    (IF grp.schema_test.some THEN 1 ELSE 0) + Len(grp.instance_tests)

\* The body of the group loop of xsd::parse_test_set for one named group: the schema
\* test is kept when its name and document are non-empty, and so is each instance
\* test; `base` is the number of test elements before the group.
xsd_group_items(grp, base) ==
    LET st == grp.schema_test
        st_kept == st.some /\ Trim(st.test.name) # "" /\ Trim(st.test.schema_document) # ""
        off == IF st.some THEN 1 ELSE 0
        \* run_xsd_tests: group.schema_test.as_ref().map(|st| st.schema_document)
        schema_path == IF st_kept THEN Some(st.test.schema_document) ELSE None
        inst == SelectSeq(Indexed(grp.instance_tests),
                          LAMBDA x : /\ Trim(x.el.test.name) # ""
                                     /\ Trim(x.el.test.instance_document) # "")
    IN (IF st_kept
        THEN <<XsdItem(base + 1, "schema", st.test, st.eng, grp.name, schema_path)>>
        ELSE <<>>)
       \o [i \in 1..Len(inst) |->
              XsdItem(base + off + inst[i].pos, "instance", inst[i].el.test, inst[i].el.eng,
                      grp.name, schema_path)]

RECURSIVE xsd_flatten(_, _, _)
xsd_flatten(groups, g, base) ==
    IF g > Len(groups) THEN <<>>
    ELSE (IF Trim(groups[g].name) = "" THEN <<>> ELSE xsd_group_items(groups[g], base))
         \o xsd_flatten(groups, g + 1, base + xsd_group_size(groups[g]))

RECURSIVE xsd_element_count(_, _)
xsd_element_count(groups, g) ==
    IF g > Len(groups) THEN 0
    ELSE xsd_group_size(groups[g]) + xsd_element_count(groups, g + 1)

\* xsd::parse_test_set, with the order in which run_xsd_tests walks the groups
xsd_parse_test_set(doc) == TestSet(EmptyMap, xsd_flatten(doc.cases, 1, 0))

\* The parser of the suite under test
parse_test_set(s, doc, global_envs) ==
    CASE s = "qt3" -> qt3_parse_test_set(doc, global_envs)
      [] s = "xslt30" -> xslt_parse_test_set(doc, EmptyMap)
      [] OTHER -> xsd_parse_test_set(doc)

\* Number of test elements of a test-set file
element_count(s, doc) ==
    IF s = "xsd" THEN xsd_element_count(doc.cases, 1) ELSE Len(doc.cases)

\* The test elements of a test-set file in document order, kept by the parser or not
RECURSIVE xsd_test_elements(_, _)
xsd_test_elements(groups, g) ==
    IF g > Len(groups) THEN <<>>
    ELSE (IF groups[g].schema_test.some
          THEN <<[well_formed |-> TRUE, test |-> groups[g].schema_test.test,
                  eng |-> groups[g].schema_test.eng]>>
          ELSE <<>>)
         \o groups[g].instance_tests \o xsd_test_elements(groups, g + 1)

test_elements(s, doc) ==
    IF s = "xsd" THEN xsd_test_elements(doc.cases, 1) ELSE doc.cases

\* A test-set file as the run read it: the catalog position of the reference that
\* named it, whether it could be read and parsed, its environment elements and its
\* test elements
FileRead(decl, status, environments, elements) ==
    [decl |-> decl, status |-> status, environments |-> environments, elements |-> elements]

(***************************************************************************)
(* The rows of the run and the report.  `src` is a ghost: the position     *)
(* <<test-set element in the catalog, test element in the test set>> of    *)
(* the element the row was produced for, with element 0 for the row of a   *)
(* test set that failed to parse.                                          *)
(***************************************************************************)
ResultRow(src, r) ==
    [src |-> src, test_id |-> r.test_id, outcome |-> r.outcome, actual |-> r.actual]

\* impl From<&TestResult> for DetailedTestResult
DetailedTestResult(r) ==
    [src |-> r.src, test_id |-> r.test_id,
     outcome |-> CASE r.outcome.tag = "Pass" -> "pass"
                   [] r.outcome.tag = "Fail" -> "fail"
                   [] r.outcome.tag = "Error" -> "error"
                   [] r.outcome.tag = "NotApplicable" -> "n/a"
                   [] OTHER -> "skipped",
     message |-> IF r.outcome.tag \in {"Fail", "Error"} THEN Some(r.outcome.msg) ELSE None,
     actual |-> r.actual]

CountTag(rows, tag) == Cardinality({i \in 1..Len(rows) : rows[i].outcome.tag = tag})

\* A pass rate is an f64; the model keeps the exact quotient, as a fraction in
\* lowest terms (the rounding of the f64 division and product is left out)
RECURSIVE GCD(_, _)
GCD(a, b) == IF b = 0 THEN a ELSE GCD(b, a % b)

Rational(n, d) == [num |-> n \div GCD(n, d), den |-> d \div GCD(n, d)]

\* if applicable > 0 { (passed as f64 / applicable as f64) * 100.0 } else { 0.0 }
\* with the denominator counted over every row: a slip
pass_rate_over_total(total, passed, not_applicable, skipped) ==
    IF total > 0 THEN Rational(passed * 100, total) ELSE Rational(0, 1)

\* let applicable = total - not_applicable - skipped;
\* if applicable > 0 { (passed as f64 / applicable as f64) * 100.0 } else { 0.0 }
pass_rate(total, passed, not_applicable, skipped) ==
    LET applicable == total - not_applicable - skipped
    IN IF applicable > 0 THEN Rational(passed * 100, applicable) ELSE Rational(0, 1)

\* ComplianceSummary::from_results with a failed counter that takes the Error
\* results too (is_fail() || is_error()): a slip
ComplianceSummary_failed_with_errors(rows) ==
    LET total == Len(rows)
        passed == CountTag(rows, "Pass")
        not_applicable == CountTag(rows, "NotApplicable")
        skipped == CountTag(rows, "Skipped")
    IN [total |-> total,
        passed |-> passed,
        failed |-> CountTag(rows, "Fail") + CountTag(rows, "Error"),
        errors |-> CountTag(rows, "Error"),
        not_applicable |-> not_applicable,
        skipped |-> skipped,
        pass_rate |-> pass_rate(total, passed, not_applicable, skipped)]

\* ComplianceSummary::from_results
ComplianceSummary(rows) ==
    LET total == Len(rows)
        passed == CountTag(rows, "Pass")
        not_applicable == CountTag(rows, "NotApplicable")
        skipped == CountTag(rows, "Skipped")
    IN [total |-> total,
        passed |-> passed,
        failed |-> CountTag(rows, "Fail"),
        errors |-> CountTag(rows, "Error"),
        not_applicable |-> not_applicable,
        skipped |-> skipped,
        pass_rate |-> pass_rate(total, passed, not_applicable, skipped)]

\* ComplianceReport::new
ComplianceReport_new(engine, s, rows) ==
    [engine |-> engine, suite |-> s, summary |-> ComplianceSummary(rows),
     results |-> [i \in 1..Len(rows) |-> DetailedTestResult(rows[i])]]

\* Utc::now() at the time of the report
Now == "2026-01-01T00:00:00Z"

\* ComplianceReport::to_json: serde_json::to_string_pretty of the derived Serialize,
\* as the JSON value written (an object is a function of its keys); `results` has
\* skip_serializing_if = "Vec::is_empty"
to_json(rep) ==
    LET json_results ==
            [i \in 1..Len(rep.results) |->
                [test_id |-> rep.results[i].test_id, outcome |-> rep.results[i].outcome,
                 message |-> rep.results[i].message, actual |-> rep.results[i].actual]]
    IN IF rep.results = <<>>
       THEN [engine |-> rep.engine, timestamp |-> Now, suite |-> rep.suite,
             summary |-> rep.summary]
       ELSE [engine |-> rep.engine, timestamp |-> Now, suite |-> rep.suite,
             summary |-> rep.summary, results |-> json_results]

\* serde_json::from_str::<ComplianceReport>, the derived Deserialize: every field of
\* the struct is required (none is an Option, none has serde(default))
from_json(json) ==
    LET required == <<"engine", "timestamp", "suite", "summary", "results">>
        missing == SelectSeq(required, LAMBDA k : k \notin DOMAIN json)
    IN IF missing # <<>>
       THEN [ok |-> FALSE, error |-> "missing field " \o missing[1], report |-> <<>>]
       ELSE [ok |-> TRUE, error |-> "", report |-> <<json>>]

\* format!("{:.1}", x) of the fraction n / d, in tenths: the nearest, ties to even
format_1(n, d) ==
    LET q == (n * 10) \div d
        r == (n * 10) % d
    IN IF 2 * r < d THEN q
       ELSE IF 2 * r > d THEN q + 1
       ELSE IF q % 2 = 0 THEN q ELSE q + 1

\* run_tests, output format "summary": the counts and the percentage printed
print_summary(rows) ==
    LET total == Len(rows)
        passed == CountTag(rows, "Pass")
    IN [format |-> "summary",
        total |-> total,
        passed |-> passed,
        percent |-> IF total > 0 THEN format_1(passed * 100, total) ELSE 0,
        failed |-> CountTag(rows, "Fail"),
        errors |-> CountTag(rows, "Error"),
        not_applicable |-> CountTag(rows, "NotApplicable")]



(***************************************************************************)
(* The inputs of a run: what the engine does on each test (the oracles),   *)
(* the test-case elements and the documents drawn.                         *)
(***************************************************************************)
Qt3Eng(parse_file, xpath) == [parse_file |-> parse_file, xpath |-> xpath]
XsltEng(read_stylesheet, parse, parse_file, transform) ==
    [read_stylesheet |-> read_stylesheet, parse |-> parse, parse_file |-> parse_file,
     transform |-> transform]
XsdEng(load_schema, read_instance, parse, validate) ==
    [load_schema |-> load_schema, read_instance |-> read_instance, parse |-> parse,
     validate |-> validate]

ThreeItems == OkResult(3, "a  b")
FaultedDoc == Faulted(OkDoc)
DocResponses == {Returned(OkDoc), Returned(ErrDoc(ParseError("malformed"))), FaultedDoc}

Qt3Works == Qt3Eng(Returned(OkDoc), Returned(ThreeItems))
XsltWorks == XsltEng(TRUE, Returned(OkDoc), Returned(OkDoc), Returned(OkDoc))
XsdWorks == XsdEng(Returned(OkDoc), TRUE, Returned(OkDoc), Returned(TRUE))

\* An element holding one test, with what the engine does on that test;
\* well_formed: every query of the parser evaluates on the element
Element(well_formed, test, eng) == [well_formed |-> well_formed, test |-> test, eng |-> eng]

NoSchemaTest == [some |-> FALSE, test |-> SchemaTest("", "", "Valid"), eng |-> XsdWorks]
SomeSchemaTest(test, eng) == [some |-> TRUE, test |-> test, eng |-> eng]
Group(name, schema_test, instance_tests) ==
    [name |-> name, schema_test |-> schema_test, instance_tests |-> instance_tests]

\* The test elements of the test sets of a run.
\* qt3: two test cases that evaluate to three items, a test-case element on which a
\* query of parse_test_case fails (two test children), one on which the backend
\* panics.  xslt30: a test case that transforms, one without name, one without
\* stylesheet, one on which the backend panics.  xsd: a group with a schema test and
\* an instance test, one without schema test, one without name, one whose schema
\* makes the backend panic.
RunElements(s) ==
    CASE s = "qt3" ->
            {Element(TRUE, TestCase("count-3", NoEnvironment, <<>>, AssertCount(3)), Qt3Works),
             Element(TRUE, TestCase("empty", NoEnvironment, <<>>, AssertEmpty), Qt3Works),
             Element(FALSE, TestCase("two-tests", NoEnvironment, <<>>, AllOf(<<>>)), Qt3Works),
             Element(TRUE, TestCase("deep", NoEnvironment, <<>>, AssertCount(3)),
                     Qt3Eng(Returned(OkDoc), Faulted(OkResult(0, ""))))}
      [] s = "xslt30" ->
            {Element(TRUE, XsltTestCase("t-001", None, Some("t-001.xsl"), AssertResult("")),
                     XsltWorks),
             Element(TRUE, XsltTestCase("", None, Some("anon.xsl"), AssertResult("")),
                     XsltWorks),
             Element(TRUE, XsltTestCase("t-002", None, None, AssertResult("")), XsltWorks),
             Element(TRUE, XsltTestCase("t-003", None, Some("t-003.xsl"), AssertResult("")),
                     XsltEng(TRUE, Returned(OkDoc), Returned(OkDoc), FaultedDoc))}
      [] OTHER ->
            {Group("g1", SomeSchemaTest(SchemaTest("s1", "g1.xsd", "Valid"), XsdWorks),
                   <<Element(TRUE, InstanceTest("i1", "g1.xml", "Valid"), XsdWorks)>>),
             Group("g2", NoSchemaTest,
                   <<Element(TRUE, InstanceTest("i2", "g2.xml", "Invalid"), XsdWorks)>>),
             Group("", NoSchemaTest,
                   <<Element(TRUE, InstanceTest("i3", "g3.xml", "Valid"), XsdWorks)>>),
             Group("g4", SomeSchemaTest(SchemaTest("s4", "g4.xsd", "Invalid"),
                                        XsdEng(FaultedDoc, TRUE, Returned(OkDoc),
                                               Returned(TRUE))),
                   <<>>)}

Qt3GlobalEnvs == "global" :> Environment("global", <<Source(".", "global.xml")>>)

TestSetDoc(status, environments, cases) ==
    [status |-> status, environments |-> environments, cases |-> cases]

\* The test-set files a reference can point to: well-formed ones, one that cannot
\* be read or parsed, one on which the parser itself panics
TestSetDocs(s) ==
    {TestSetDoc("ok", EmptyMap, cases) : cases \in SeqUpTo(RunElements(s), MaxCases)}
    \cup {TestSetDoc("error", EmptyMap, <<>>), TestSetDoc("panic", EmptyMap, <<>>)}

CatalogDoc(readable, test_sets, environments) ==
    [readable |-> readable, test_sets |-> test_sets, environments |-> environments]

DistinctSeqs(S, n) ==
    {l \in SeqUpTo(S, n) : \A i, j \in 1..Len(l) : i # j => l[i] # l[j]}

\* The catalog files: readable ones declaring each of their test sets once (one
\* test-set element has no file attribute), and an unreadable one
CatalogDocs(s) ==
    LET RefElements == {TestSetRef("fn-abs", "fn/abs.xml"), TestSetRef("op-add", "op/add.xml"),
                        TestSetRef("misc", "")}
    IN {CatalogDoc(TRUE, refs, IF s = "qt3" THEN Qt3GlobalEnvs ELSE EmptyMap) :
            refs \in DistinctSeqs(RefElements, MaxSets)}
       \cup {CatalogDoc(FALSE, <<>>, EmptyMap)}

(***************************************************************************)
(* The run: run_xpath_tests, run_xslt_tests, run_xsd_tests, followed by    *)
(* ComplianceReport::new on what the run returned.                         *)
(***************************************************************************)
EvalIdle ==
    /\ ev_assertion = AllOf(<<>>)
    /\ ev_result = OkResult(0, "")
    /\ ev_outcome = NotEvaluated

Init ==
    /\ EvalIdle
    /\ suite \in Suites
    /\ backend \in Backends
    /\ filter \in {None, Some("fn")}
    /\ pc = "start"
    /\ catalog = Catalog(<<>>, EmptyMap)
    /\ set_idx = 0
    /\ test_set = TestSet(EmptyMap, <<>>)
    /\ todo = <<>>
    /\ results = <<>>
    /\ cur = <<>>
    /\ validator = NoValidator
    /\ attempted = <<>>
    /\ files_read = <<>>
    /\ report = <<>>
    /\ output = <<>>
    /\ CliIdle

\* The ghost position of the row made for element k of the test set being run
Src(k) == <<catalog.test_sets[set_idx].decl, k>>

\* Where the loop over the test-set references stands at index idx
LoopPc(cat, idx) == IF idx > Len(cat.test_sets) THEN "done" ELSE "sets"

ReadError(what) == EngineError("Failed to read " \o what \o ": " \o NotFound)

\* A slip in the Err arm: the error is unwrapped and the run unwinds
CatalogFailedAborts(row) ==
    /\ pc' = "aborted"
    /\ UNCHANGED <<results, catalog, set_idx>>

\* Err(e) => { results.push(TestResult { .. }); return results; }
CatalogFailed(row) ==
    /\ results' = Append(results, row)
    /\ pc' = "done"
    /\ UNCHANGED <<catalog, set_idx>>

\* let catalog = match parse_catalog(..) { Ok(c) => c, Err(e) => { push; return } }
ParseCatalog ==
    /\ pc = "start"
    /\ \E doc \in CatalogDocs(suite) :
        IF ~doc.readable
        THEN CatalogFailed(
                 ResultRow(<<0, 0>>,
                      IF suite = "xsd"
                      THEN TestResult("suite_parse",
                               Error("Failed to parse suite: "
                                     \o ErrorDisplay(ReadError("suite"))), "")
                      ELSE TestResult("catalog_parse",
                               Error("Failed to parse catalog: "
                                     \o ErrorDisplay(ReadError("catalog"))), "")))
        ELSE /\ catalog' = IF suite = "xsd" THEN parse_suite(doc) ELSE parse_catalog(doc)
             /\ set_idx' = 1
             /\ pc' = LoopPc(catalog', 1)
             /\ UNCHANGED results
    /\ UNCHANGED <<suite, backend, filter, test_set, todo, cur, validator, attempted,
                   files_read, report, output>>
    /\ UNCHANGED evalVars
    /\ UNCHANGED cliVars

\* The reference at set_idx does not match the filter: continue
SkipTestSet ==
    /\ pc = "sets"
    /\ ~filter_matches(suite, catalog.test_sets[set_idx], filter)
    /\ set_idx' = set_idx + 1
    /\ pc' = LoopPc(catalog, set_idx + 1)
    /\ UNCHANGED <<suite, backend, filter, catalog, test_set, todo, results, cur, validator,
                   attempted, files_read, report, output>>
    /\ UNCHANGED evalVars
    /\ UNCHANGED cliVars

\* A slip in the Err arm: the run returns what it has instead of continuing
TestSetFailedReturns(row) ==
    /\ results' = Append(results, row)
    /\ pc' = "done"
    /\ UNCHANGED <<set_idx, test_set, todo, attempted>>

\* Err(e) => { results.push(TestResult { .. }); continue; }
TestSetFailed(row) ==
    /\ results' = Append(results, row)
    /\ set_idx' = set_idx + 1
    /\ pc' = LoopPc(catalog, set_idx + 1)
    /\ UNCHANGED <<test_set, todo, attempted>>

\* parse_test_set on the file of the reference at set_idx, and the match on its
\* result; xslt30 and xsd wrap the call in catch_unwind, qt3 does not
ParseTestSet ==
    /\ pc = "sets"
    /\ filter_matches(suite, catalog.test_sets[set_idx], filter)
    /\ \E doc \in TestSetDocs(suite) :
        /\ Len(attempted) + element_count(suite, doc) <= MaxTests
        /\ files_read' = Append(files_read,
               FileRead(catalog.test_sets[set_idx].decl, doc.status, doc.environments,
                        test_elements(suite, doc)))
        /\ LET name == catalog.test_sets[set_idx].name
               parse_row(msg, actual) ==
                   ResultRow(Src(0), TestResult(name \o "/parse", Error(msg), actual))
           IN CASE doc.status = "error" ->
                    TestSetFailed(parse_row("Failed to parse test set: "
                                            \o ErrorDisplay(ReadError("test set")), ""))
                [] doc.status = "panic" /\ suite = "qt3" ->
                    /\ pc' = "aborted"
                    /\ UNCHANGED <<results, set_idx, test_set, todo, attempted>>
                [] doc.status = "panic" /\ suite # "qt3" ->
                    TestSetFailed(parse_row("Panic: " \o PanicMessage, "PANIC"))
                [] OTHER ->
                    LET ts == parse_test_set(suite, doc, catalog.environments)
                    IN /\ todo' = ts.items
                       /\ attempted' = attempted \o
                              [k \in 1..element_count(suite, doc) |-> Src(k)]
                       /\ IF ts.items = <<>>
                          THEN /\ set_idx' = set_idx + 1
                               /\ pc' = LoopPc(catalog, set_idx + 1)
                               /\ test_set' = TestSet(EmptyMap, <<>>)
                          ELSE /\ set_idx' = set_idx
                               /\ pc' = "cases"
                               /\ test_set' = ts
                       /\ UNCHANGED results
    /\ UNCHANGED <<suite, backend, filter, catalog, cur, validator, report, output>>
    /\ UNCHANGED evalVars
    /\ UNCHANGED cliVars

Executed(item, environments, out) ==
    [item |-> item, environments |-> environments, engine |-> backend, before |-> validator,
     out |-> out]

\* A slip in the push: the row is inserted at the front of the list.
PushFront(row) ==
    /\ results' = <<row>> \o results
    /\ todo' = Tail(todo)
    /\ IF Tail(todo) = <<>>
       THEN /\ set_idx' = set_idx + 1
            /\ pc' = LoopPc(catalog, set_idx + 1)
            /\ test_set' = TestSet(EmptyMap, <<>>)
       ELSE /\ set_idx' = set_idx
            /\ pc' = "cases"
            /\ test_set' = test_set

\* results.push(row); and the loop moves to the next test or, dropping the test
\* set, to the next test-set reference
Push(row) ==
    /\ results' = Append(results, row)
    /\ todo' = Tail(todo)
    /\ IF Tail(todo) = <<>>
       THEN /\ set_idx' = set_idx + 1
            /\ pc' = LoopPc(catalog, set_idx + 1)
            /\ test_set' = TestSet(EmptyMap, <<>>)
       ELSE /\ set_idx' = set_idx
            /\ pc' = "cases"
            /\ test_set' = test_set

\* run_xpath_tests: results.push(run_test_case(..)); a panic of the backend is not
\* caught and unwinds out of the run
RunQt3TestCase ==
    /\ pc = "cases"
    /\ todo # <<>>
    /\ Head(todo).kind = "qt3"
    /\ LET item == Head(todo)
           out == qt3_run_test_case(backend, item.test, test_set.environments, item.eng)
       IN /\ cur' = <<Executed(item, test_set.environments, out)>>
          /\ IF out.fault
             THEN pc' = "aborted" /\ UNCHANGED <<results, todo, set_idx, test_set>>
             ELSE Push(ResultRow(Src(item.pos), out.result))
    /\ UNCHANGED <<suite, backend, filter, catalog, validator, attempted, files_read,
                   report, output>>
    /\ UNCHANGED evalVars
    /\ UNCHANGED cliVars

\* run_xslt_tests: catch_unwind around run_test_case
RunXsltTestCase ==
    /\ pc = "cases"
    /\ todo # <<>>
    /\ Head(todo).kind = "xslt30"
    /\ LET item == Head(todo)
           out == xslt_run_test_case(backend, item.test, test_set.environments, item.eng)
       IN /\ cur' = <<Executed(item, test_set.environments, out)>>
          /\ Push(ResultRow(Src(item.pos),
                     IF out.fault
                     THEN TestResult(item.test.name,
                                     Error("Engine panic: " \o PanicMessage), "PANIC")
                     ELSE out.result))
    /\ UNCHANGED <<suite, backend, filter, catalog, validator, attempted, files_read,
                   report, output>>
    /\ UNCHANGED evalVars
    /\ UNCHANGED cliVars

XsdPanicRow(item) ==
    TestResult(item.group \o "/" \o item.test.name, Error("Panic: " \o PanicMessage), "PANIC")

\* run_xsd_tests: catch_unwind around run_schema_test
RunSchemaTest ==
    /\ pc = "cases"
    /\ todo # <<>>
    /\ Head(todo).kind = "schema"
    /\ LET item == Head(todo)
           out == run_schema_test(backend, item.test, item.group, item.eng, validator)
       IN /\ cur' = <<Executed(item, test_set.environments, out)>>
          /\ validator' = out.validator
          /\ Push(ResultRow(Src(item.pos),
                            IF out.fault THEN XsdPanicRow(item) ELSE out.result))
    /\ UNCHANGED <<suite, backend, filter, catalog, attempted, files_read, report, output>>
    /\ UNCHANGED evalVars
    /\ UNCHANGED cliVars

\* run_xsd_tests: catch_unwind around run_instance_test
RunInstanceTest ==
    /\ pc = "cases"
    /\ todo # <<>>
    /\ Head(todo).kind = "instance"
    /\ LET item == Head(todo)
           out == run_instance_test(backend, item.test, item.schema_path, item.group,
                                    item.eng, validator)
       IN /\ cur' = <<Executed(item, test_set.environments, out)>>
          /\ validator' = out.validator
          /\ Push(ResultRow(Src(item.pos),
                            IF out.fault THEN XsdPanicRow(item) ELSE out.result))
    /\ UNCHANGED <<suite, backend, filter, catalog, attempted, files_read, report, output>>
    /\ UNCHANGED evalVars
    /\ UNCHANGED cliVars

\* The run returned its results: ComplianceReport::new(engine, suite, results)
BuildReport ==
    /\ pc = "done"
    /\ report' = <<ComplianceReport_new(backend, suite, results)>>
    /\ pc' = "reported"
    /\ UNCHANGED <<suite, backend, filter, catalog, set_idx, test_set, todo, results, cur,
                   validator, attempted, files_read, output>>
    /\ UNCHANGED evalVars
    /\ UNCHANGED cliVars

\* run_tests, output format "json": println!("{}", report.to_json())
PrintJson ==
    /\ pc = "reported"
    /\ output' = <<[format |-> "json", json |-> to_json(report[1])]>>
    /\ pc' = "printed"
    /\ UNCHANGED <<suite, backend, filter, catalog, set_idx, test_set, todo, results, cur,
                   validator, attempted, files_read, report>>
    /\ UNCHANGED evalVars
    /\ UNCHANGED cliVars

\* run_tests, output format "summary" (the default): no report is built
PrintSummary ==
    /\ pc = "done"
    /\ output' = <<print_summary(results)>>
    /\ pc' = "printed"
    /\ UNCHANGED <<suite, backend, filter, catalog, set_idx, test_set, todo, results, cur,
                   validator, attempted, files_read, report>>
    /\ UNCHANGED evalVars
    /\ UNCHANGED cliVars

Next ==
    \/ ParseCatalog
    \/ SkipTestSet
    \/ ParseTestSet
    \/ RunQt3TestCase
    \/ RunXsltTestCase
    \/ RunSchemaTest
    \/ RunInstanceTest
    \/ BuildReport
    \/ PrintJson
    \/ PrintSummary

Spec == Init /\ [][Next]_vars

(***************************************************************************)
(* SpecReport: the reporting of a run that returned any list of results.   *)
(***************************************************************************)
MaxResults == 10   \* most results of a drawn list (grouped by outcome)
MaxMixed == 3      \* most results of a drawn list in every order

Outcomes == {Pass, Fail("mismatch"), Error("engine"), NotApplicable, Skipped}

Rows(outcomes) ==
    [i \in 1..Len(outcomes) |-> ResultRow(<<1, i>>, TestResult("t", outcomes[i], ""))]

Repeat(o, n) == [i \in 1..n |-> o]

\* The result lists a run may return: every list of up to MaxMixed results, and the
\* lists of up to MaxResults results with the results of one outcome together
ResultLists ==
    LET grouped(p, f, e, n, k) ==
            Rows(Repeat(Pass, p) \o Repeat(Fail("mismatch"), f) \o Repeat(Error("engine"), e)
                 \o Repeat(NotApplicable, n) \o Repeat(Skipped, k))
        M == MaxResults
    IN {Rows(l) : l \in SeqUpTo(Outcomes, MaxMixed)}
       \cup UNION {UNION {UNION {UNION {{grouped(p, f, e, n, k) :
                                            k \in 0..(M - p - f - e - n)} :
                                        n \in 0..(M - p - f - e)} :
                                 e \in 0..(M - p - f)} :
                          f \in 0..(M - p)} :
                   p \in 0..M}

\* The runner has returned its results; the command line tool is about to print
InitReport ==
    /\ EvalIdle
    /\ suite = "qt3"
    /\ backend = "xee"
    /\ filter = None
    /\ pc = "done"
    /\ catalog = Catalog(<<>>, EmptyMap)
    /\ set_idx = 1
    /\ test_set = TestSet(EmptyMap, <<>>)
    /\ todo = <<>>
    /\ results \in ResultLists
    /\ cur = <<>>
    /\ validator = NoValidator
    /\ attempted = <<>>
    /\ files_read = <<>>
    /\ report = <<>>
    /\ output = <<>>
    /\ CliIdle

NextReport ==
    \/ BuildReport
    \/ PrintJson
    \/ PrintSummary

SpecReport == InitReport /\ [][NextReport]_vars


(***************************************************************************)
(* SpecCli: the command line tool (bin/conformance.rs).  main reads the    *)
(* command, run_tests and run_report read the options, check them, call    *)
(* the runner of the suite and print.  What the runner returns is drawn    *)
(* here; the runners themselves are the subject of Spec.                   *)
(***************************************************************************)
Options(engine, s, f, o) == [engine |-> engine, suite |-> s, filter |-> f, output |-> o]

\* parse_args: the while loop from (1-based) index i on
RECURSIVE parse_args_from(_, _, _)
parse_args_from(a, i, opts) ==
    IF i > Len(a) THEN opts
    ELSE IF a[i] \notin {"--engine", "-e", "--suite", "-s", "--filter", "-f", "--output", "-o"}
    THEN parse_args_from(a, i + 1, opts)
    ELSE IF i + 1 > Len(a)
    THEN parse_args_from(a, i + 1, opts)
    ELSE parse_args_from(a, i + 2,
            CASE a[i] \in {"--engine", "-e"} -> [opts EXCEPT !.engine = Some(a[i + 1])]
              [] a[i] \in {"--suite", "-s"} -> [opts EXCEPT !.suite = Some(a[i + 1])]
              [] a[i] \in {"--filter", "-f"} -> [opts EXCEPT !.filter = Some(a[i + 1])]
              [] OTHER -> [opts EXCEPT !.output = Some(a[i + 1])])

parse_args(a) == parse_args_from(a, 1, Options(None, None, None, None))

get_engine(name) == IF name \in {"xee", "xrust", "xust"} THEN Some(name) ELSE None

\* get_catalog_path: the first candidate path that exists, or the default one (which
\* is the first candidate); None for an unknown suite
get_catalog_path(s) ==
    CASE s = "qt3" -> Some("../tests/qt3tests/catalog.xml")
      [] s = "xslt30" -> Some("../tests/xslt30-test/catalog.xml")
      [] s = "xsd" -> Some("../tests/xsdtests/suite.xml")
      [] OTHER -> None

\* process::exit(code)
Exit(code) ==
    /\ exit_code' = code
    /\ pc' = "exited"
    /\ UNCHANGED <<suite, backend, filter>>

\* run_tests and run_report up to the call of the runner: every check that fails
\* ends the process with exit code 1
CheckOptions(a) ==
    LET o == parse_args(a)
    IN IF ~o.engine.some THEN Exit(1)
       ELSE IF ~o.suite.some THEN Exit(1)
       ELSE IF ~get_engine(o.engine.v).some THEN Exit(1)
       ELSE IF ~get_catalog_path(o.suite.v).some THEN Exit(1)
       ELSE IF ~catalog_exists THEN Exit(1)
       ELSE /\ backend' = o.engine.v
            /\ suite' = o.suite.v
            /\ filter' = o.filter
            /\ pc' = "run"
            /\ UNCHANGED exit_code

\* main, and the head of run_tests / run_report
Main ==
    /\ pc = "main"
    /\ IF Len(argv) < 1 THEN Exit(1)
       ELSE IF argv[1] \in {"run", "report"} THEN CheckOptions(Tail(argv))
       ELSE IF argv[1] \in {"--help", "-h"} THEN Exit(0)
       ELSE Exit(1)
    /\ UNCHANGED <<catalog, set_idx, test_set, todo, results, cur, validator, attempted,
                   files_read, report, output, argv, catalog_exists>>
    /\ UNCHANGED evalVars

\* The result lists drawn for the runner
CliResultLists == {Rows(l) : l \in SeqUpTo(Outcomes, 1)}

\* The exit code of a process whose main thread panicked
PanicExit == 101

\* let results = match suite.as_str() { "qt3" => run_xpath_tests(..), .. }: the
\* runner returns a result list, or (run_xpath_tests, which does not catch a panic
\* of the backend) unwinds out of main
RunSuite ==
    /\ pc = "run"
    /\ \/ /\ results' \in CliResultLists
          /\ pc' = "done"
          /\ UNCHANGED exit_code
       \/ /\ suite = "qt3"
          /\ pc' = "aborted"
          /\ exit_code' = PanicExit
          /\ UNCHANGED results
    /\ UNCHANGED <<suite, backend, filter, catalog, set_idx, test_set, todo, cur, validator,
                   attempted, files_read, report, output, argv, catalog_exists>>
    /\ UNCHANGED evalVars

\* output.unwrap_or_else(|| "summary") in run_tests, "markdown" in run_report
output_format(a) ==
    LET o == parse_args(Tail(a)).output
    IN IF o.some THEN o.v ELSE IF a[1] = "run" THEN "summary" ELSE "markdown"

\* The last arm of the match on the output format: run_tests prints the plain
\* summary, run_report rejects the format
unknown_format(command, rows) ==
    IF command = "run"
    THEN [exit |-> 0, out |-> <<print_summary(rows)>>]
    ELSE [exit |-> 1, out |-> <<>>]

\* The match on the output format of run_tests and of run_report, and the return
\* from main
PrintOutput ==
    /\ pc = "done"
    /\ argv # <<>>
    /\ LET fmt == output_format(argv)
           rep == ComplianceReport_new(backend, suite, results)
           last == unknown_format(argv[1], results)
       IN /\ report' = IF fmt \in {"json", "csv", "markdown", "md"} \/ argv[1] = "report"
                       THEN <<rep>> ELSE report
          /\ CASE fmt = "json" ->
                    output' = <<[format |-> "json", json |-> to_json(rep)]>> /\ exit_code' = 0
               [] fmt = "csv" ->
                    output' = <<[format |-> "csv", report |-> rep]>> /\ exit_code' = 0
               [] fmt \in {"markdown", "md"} ->
                    output' = <<[format |-> "markdown", report |-> rep]>> /\ exit_code' = 0
               [] OTHER -> output' = last.out /\ exit_code' = last.exit
    /\ pc' = "exited"
    /\ UNCHANGED <<suite, backend, filter, catalog, set_idx, test_set, todo, results, cur,
                   validator, attempted, files_read, argv, catalog_exists>>
    /\ UNCHANGED evalVars

\* The command lines drawn: a command, and the options --engine, --suite, --filter
\* and --output, each absent, given with a value or (engine, suite) without one
CommandLines ==
    LET engines == {<<>>, <<"--engine", "xee">>, <<"-e", "xust">>, <<"--engine", "saxon">>,
                    <<"--engine">>}
        suites == {<<>>, <<"--suite", "qt3">>, <<"-s", "xsd">>, <<"--suite", "xquery">>,
                   <<"--suite">>}
        filters == {<<>>, <<"--filter", "fn">>}
        outputs == {<<>>} \cup {<<"--output", f>> : f \in {"summary", "json", "csv", "markdown"}}
    IN {<<>>, <<"--help">>, <<"check">>}
       \cup {<<c>> \o e \o s \o f \o o :
                c \in {"run", "report"}, e \in engines, s \in suites, f \in filters,
                o \in outputs}
       \cup {<<c>> \o s \o e : c \in {"run", "report"}, e \in engines, s \in suites}

InitCli ==
    /\ EvalIdle
    /\ suite = "none"
    /\ backend = "none"
    /\ filter = None
    /\ pc = "main"
    /\ catalog = Catalog(<<>>, EmptyMap)
    /\ set_idx = 0
    /\ test_set = TestSet(EmptyMap, <<>>)
    /\ todo = <<>>
    /\ results = <<>>
    /\ cur = <<>>
    /\ validator = NoValidator
    /\ attempted = <<>>
    /\ files_read = <<>>
    /\ report = <<>>
    /\ output = <<>>
    /\ argv \in CommandLines
    /\ catalog_exists \in BOOLEAN
    /\ exit_code = NotExited

NextCli ==
    \/ Main
    \/ RunSuite
    \/ PrintOutput

SpecCli == InitCli /\ [][NextCli]_vars


(***************************************************************************)
(* SpecDispatch: one call of an operation of XEngine that takes a          *)
(* document (unified.rs): xpath, xquery, xslt, xslt_to_string, validate,   *)
(* on a document parsed by any backend.                                    *)
(***************************************************************************)
\* XDocument::Xee(..) | XDocument::Xrust(..) | XDocument::Xust(..): a document
\* remembers the backend that parsed it
XDocument(b) == [backend |-> b]

DocumentOperations == {"xpath", "xquery", "xslt", "xslt_to_string", "validate"}

\* The method of the backend an operation of XEngine is dispatched to
BackendMethod(op) ==
    CASE op = "xpath" -> "evaluate_xpath"
      [] op = "xquery" -> "execute_xquery"
      [] op = "xslt" -> "transform"
      [] op = "xslt_to_string" -> "transform_to_string"
      [] OTHER -> "validate"

DifferentEngine == EngineError("Document was created with a different engine")

Dispatched(result, calls) == [result |-> result, calls |-> calls]

\* A slip in the match: the document is handed to the backend whoever parsed it
XEngine_call_any_document(engine, op, doc, response) ==
    Dispatched(response, <<Call(BackendMethod(op), doc.backend)>>)

\* XEngine::xpath, xquery, xslt, xslt_to_string and validate: match (self, doc) with
\* one arm per backend and `_ => Err(EngineError(..))`; `response` is what the
\* method of the backend returns when it is called
XEngine_call(engine, op, doc, response) ==
    IF doc.backend = engine
    THEN Dispatched(response, <<Call(BackendMethod(op), doc.backend)>>)
    ELSE Dispatched(ErrDoc(DifferentEngine), <<>>)

Invocation(op, doc, response) == [op |-> op, doc |-> doc, response |-> response]

\* What the method of a backend may return
BackendResponses == {OkDoc, ErrDoc(Unsupported), ErrDoc(EngineError("backend failed"))}

InitDispatch ==
    /\ EvalIdle
    /\ suite = "none"
    /\ backend \in Backends
    /\ filter = None
    /\ pc = "call"
    /\ catalog = Catalog(<<>>, EmptyMap)
    /\ set_idx = 0
    /\ test_set = TestSet(EmptyMap, <<>>)
    /\ todo = <<>>
    /\ results = <<>>
    /\ cur \in {<<Invocation(op, XDocument(b), r)>> :
                   op \in DocumentOperations, b \in Backends, r \in BackendResponses}
    /\ validator = NoValidator
    /\ attempted = <<>>
    /\ files_read = <<>>
    /\ report = <<>>
    /\ output = <<>>
    /\ CliIdle

\* The invocation with what the call returned
Answered(inv, out) ==
    [op |-> inv.op, doc |-> inv.doc, response |-> inv.response, out |-> out]

\* engine.<op>(&doc, ..)
Dispatch ==
    /\ pc = "call"
    /\ cur' = <<Answered(cur[1], XEngine_call(backend, cur[1].op, cur[1].doc,
                                              cur[1].response))>>
    /\ pc' = "returned"
    /\ UNCHANGED <<suite, backend, filter, catalog, set_idx, test_set, todo, results,
                   validator, attempted, files_read, report, output>>
    /\ UNCHANGED evalVars
    /\ UNCHANGED cliVars

NextDispatch == Dispatch

SpecDispatch == InitDispatch /\ [][NextDispatch]_vars


(***************************************************************************)
(* SpecResult: qt3::parse_assertion on the result element of a test case,  *)
(* and check_assertion on the Assertion it returned.  An element is        *)
(* modelled by what the parser's queries return on it: its local name, its *)
(* string value, its code and normalize-space attributes, its children.    *)
(***************************************************************************)
AssertionElement(name, text, code, normalize_space, children) ==
    [name |-> name, text |-> text, code |-> code, normalize_space |-> normalize_space,
     children |-> children]

\* str::parse::<usize>() of a decimal numeral of one digit; Err for any other text
parse_usize(s) ==
    LET digits == "0123456789"
        at == {i \in 1..Len(digits) : Len(s) = 1 /\ CharAt(digits, i) = s}
    IN IF at = {} THEN [ok |-> FALSE, n |-> 0]
       ELSE [ok |-> TRUE, n |-> (CHOOSE i \in at : TRUE) - 1]

\* The assertion of an element that has no assertion children of its own, as both
\* parsers build it from the string value and the attributes of the element
\* (file and flags attributes are left out, as in AssertXml and SerializationMatches)
leaf_assertion(c, count) ==
    CASE c.name = "assert-eq" -> AssertEq(Trim(c.text))
      [] c.name = "assert-true" -> AssertTrue
      [] c.name = "assert-false" -> AssertFalse
      [] c.name = "assert-empty" -> AssertEmpty
      [] c.name = "assert-count" -> AssertCount(count)
      [] c.name = "assert-type" -> AssertType(Trim(c.text))
      [] c.name = "assert-string-value" ->
            AssertStringValue(Trim(c.text), Trim(c.normalize_space) = "true")
      [] c.name = "error" -> ExpectedError(Trim(c.code))
      [] c.name = "assert-xml" -> AssertXml(Trim(c.text), Trim(c.text) # "")
      [] c.name = "assert" -> AssertCustom(Trim(c.text))
      [] c.name = "assert-deep-eq" -> AssertDeepEq(Trim(c.text))
      [] c.name = "assert-permutation" -> AssertPermutation(Trim(c.text))
      [] OTHER -> SerializationMatches

NestedLeafNames ==
    {"assert-eq", "assert-true", "assert-false", "assert-empty", "assert-count",
     "assert-type", "assert-string-value", "error", "assert-xml", "assert",
     "assert-deep-eq", "assert-permutation", "serialization-matches"}

\* qt3::parse_nested_assertions: the loop over the children of el from index idx on
RECURSIVE parse_nested_from(_, _)
parse_nested_from(el, idx) ==
    IF idx > Len(el.children) THEN <<>>
    ELSE LET c == el.children[idx]
             nested == parse_nested_from(c, 1)
             count == parse_usize(Trim(c.text))
             assertion ==
                 CASE c.name = "all-of" -> <<AllOf(nested)>>
                   [] c.name = "any-of" -> <<AnyOf(nested)>>
                   [] c.name = "not" -> IF nested # <<>> THEN <<Not(nested[1])>> ELSE <<>>
                   [] c.name \in NestedLeafNames ->
                         <<leaf_assertion(c, IF count.ok THEN count.n ELSE 0)>>
                   [] OTHER -> <<>>
         IN assertion \o parse_nested_from(el, idx + 1)

parse_nested_assertions(el) == parse_nested_from(el, 1)

\* qt3::parse_assertion on the result element el: the checks in the order of the
\* code, each on the child of that local name (the result elements drawn have at
\* most one child of a name); not and serialization-matches are not looked for
parse_assertion(el) ==
    LET Has(n) == \E i \in 1..Len(el.children) : el.children[i].name = n
        Child(n) == el.children[CHOOSE i \in 1..Len(el.children) : el.children[i].name = n]
        count == parse_usize(Trim(Child("assert-count").text))
        TopLeafNames == <<"assert-eq", "assert-true", "assert-false", "assert-empty",
                          "assert-count", "assert-type", "assert-string-value", "error",
                          "assert-xml", "assert", "assert-deep-eq", "assert-permutation">>
        \* whether the check for the leaf name n returns
        Returns(n) ==
            /\ Has(n)
            /\ n = "assert-count" => count.ok
            /\ n = "error" => Trim(Child("error").code) # ""
        hits == SelectSeq(TopLeafNames, Returns)
    IN IF Has("all-of") THEN AllOf(parse_nested_assertions(Child("all-of")))
       ELSE IF Has("any-of") THEN AnyOf(parse_nested_assertions(Child("any-of")))
       ELSE IF hits # <<>>
       THEN leaf_assertion(Child(hits[1]), IF hits[1] = "assert-count" THEN count.n ELSE 0)
       ELSE AllOf(<<>>)

\* The assertion elements drawn: one of each name of the catalog vocabulary, with
\* the attribute values and contents that make the parsers take each branch
LeafElements ==
    LET Leaf(name, text) == AssertionElement(name, text, "", "", <<>>)
    IN {Leaf("assert-eq", " 1 "), Leaf("assert-true", ""), Leaf("assert-false", ""),
        Leaf("assert-empty", ""), Leaf("assert-count", "3"), Leaf("assert-count", "many"),
        Leaf("assert-type", "xs:integer"),
        AssertionElement("assert-string-value", "a b", "", "true", <<>>),
        Leaf("assert-string-value", "a b"),
        AssertionElement("error", "", "XPST0003", "", <<>>),
        AssertionElement("error", "", "", "", <<>>),
        Leaf("assert-xml", "<a/>"), Leaf("assert", "$result = 1"),
        Leaf("assert-deep-eq", "1, 2"), Leaf("assert-permutation", "1, 2"),
        Leaf("serialization-matches", "a+"), Leaf("comment", "")}

MemberElements ==
    LET Leaf(name, text) == AssertionElement(name, text, "", "", <<>>)
    IN {Leaf("assert-empty", ""), Leaf("assert-count", "3"), Leaf("assert-true", ""),
        AssertionElement("not", "", "", "", <<Leaf("assert-empty", "")>>)}

AssertionElements ==
    LeafElements
    \cup {AssertionElement(n, "", "", "", members) :
             n \in {"all-of", "any-of"}, members \in SeqUpTo(MemberElements, 2)}
    \cup {AssertionElement("not", "", "", "", <<e>>) : e \in MemberElements}

\* The result elements: without child, or with one assertion element as only child
ResultElements ==
    {AssertionElement("result", "", "", "", children) :
        children \in {<<>>} \cup {<<e>> : e \in AssertionElements}}

InitResult ==
    /\ ev_assertion = AllOf(<<>>)
    /\ ev_result \in {OkResult(0, ""), ThreeItems, ErrResult(XPathError("XPST0003"))}
    /\ ev_outcome = NotEvaluated
    /\ suite = "none"
    /\ backend = "none"
    /\ filter = ""
    /\ pc = "result"
    /\ catalog = <<>>
    /\ set_idx = 0
    /\ test_set = <<>>
    /\ todo = <<>>
    /\ results = <<>>
    /\ cur \in {<<el>> : el \in ResultElements}
    /\ validator = ""
    /\ attempted = <<>>
    /\ files_read = <<>>
    /\ report = <<>>
    /\ output = <<>>
    /\ CliIdle

\* parse_test_case: let result = parse_assertion(engine, doc, ".../result")?
ParseAssertion ==
    /\ pc = "result"
    /\ ev_assertion' = parse_assertion(cur[1])
    /\ pc' = "idle"
    /\ UNCHANGED <<ev_result, ev_outcome>>
    /\ UNCHANGED <<suite, backend, filter, catalog, set_idx, test_set, todo, results, cur,
                   validator, attempted, files_read, report, output>>
    /\ UNCHANGED cliVars

NextResult ==
    \/ ParseAssertion
    \/ CheckAssertion

SpecResult == InitResult /\ [][NextResult]_vars


(***************************************************************************)
(* SpecCase: one test of a test set, with every shape of test case,        *)
(* environment table and engine behaviour drawn, run by the same actions.  *)
(***************************************************************************)
Qt3CaseEnvs == "works" :> Environment("works", <<Source(".", "works.xml")>>)

XsltCaseEnvs ==
    {"works" :> Environment("works", sources) :
        sources \in {<<>>,
                     <<XsltSource(".", Some("in.xml"), None)>>,
                     <<XsltSource("", None, Some("<in/>"))>>,
                     <<XsltSource("$x", Some("x.xml"), None)>>}}

Qt3CaseItems ==
    LET dependencies ==
            {Dependency("spec", "XP31", TRUE), Dependency("spec", "XP20+", TRUE),
             Dependency("spec", "XQ31", TRUE), Dependency("feature", "schema-import", TRUE),
             Dependency("feature", "namespace-axis", TRUE),
             Dependency("xml-version", "1.1", FALSE)}
        environment_refs ==
            {NoEnvironment, Named("works"), Named("missing"),
             Inline(Environment("", <<Source("$x", "x.xml")>>))}
        query_responses ==
            {Returned(ThreeItems), Returned(ErrResult(XPathError("XPST0003"))),
             Faulted(OkResult(0, ""))}
    IN {Qt3Item(1, TestCase("case", env, deps, result), Qt3Eng(pf, xp)) :
            env \in environment_refs, deps \in SeqUpTo(dependencies, MaxDeps),
            result \in {AssertCount(3), ExpectedError("*")},
            pf \in DocResponses, xp \in query_responses}

XsltCaseItems ==
    LET transform_responses ==
            {Returned(OkDoc), Returned(ErrDoc(XsltError("XTSE0010"))), FaultedDoc}
    IN {XsltItem(1, XsltTestCase("case", env, stylesheet, AssertResult("")),
                 XsltEng(rs, p, pf, t)) :
            env \in {None, Some("works"), Some("missing")},
            stylesheet \in {None, Some("case.xsl")},
            rs \in BOOLEAN, p \in DocResponses, pf \in DocResponses,
            t \in transform_responses}

\* Values of the validity attribute of an expected element, after trim(); "" is the
\* string value of a missing attribute
ValidityAttributes == {"valid", "VALID", "invalid", "Invalid", "", "notKnown", "indeterminate"}

XsdCaseItems ==
    LET validities == {Validity_from_str(a) : a \in ValidityAttributes}
        load_responses ==
            {Returned(OkDoc), Returned(ErrDoc(XsdError("Failed to load schema: bad"))),
             FaultedDoc}
        validate_responses == {Returned(TRUE), Returned(FALSE), Faulted(FALSE)}
    IN {XsdItem(1, "schema", SchemaTest("s", "case.xsd", v),
                XsdEng(l, TRUE, Returned(OkDoc), Returned(TRUE)), "g", Some("case.xsd")) :
            v \in validities, l \in load_responses}
       \cup
       {XsdItem(1, "instance", InstanceTest("i", "case.xml", v), XsdEng(l, r, p, val),
                "g", sp) :
            v \in validities, l \in load_responses, r \in BOOLEAN, p \in DocResponses,
            val \in validate_responses, sp \in {None, Some("case.xsd")}}

CaseTestSets(s) ==
    CASE s = "qt3" -> {TestSet(Qt3CaseEnvs, <<item>>) : item \in Qt3CaseItems}
      [] s = "xslt30" ->
            {TestSet(envs, <<item>>) : envs \in XsltCaseEnvs, item \in XsltCaseItems}
      [] OTHER -> {TestSet(EmptyMap, <<item>>) : item \in XsdCaseItems}

\* The test elements that parse into the only item of the test set ts: the element
\* holding the test of the item, for xslt30 with any result element, for xsd with
\* the validity attribute as written
CaseElements(s, ts) ==
    LET item == ts.items[1]
    IN IF s = "xslt30"
       THEN {Element(TRUE, [item.test EXCEPT !.result = r], item.eng) :
                r \in {AssertResult("<out/>"), ExpectedResultError("XTSE0010")}}
       ELSE IF s = "xsd"
       THEN {Element(TRUE, [item.test EXCEPT !.expected_validity = a], item.eng) :
                a \in {b \in ValidityAttributes :
                          Validity_from_str(b) = item.test.expected_validity}}
       ELSE {Element(TRUE, item.test, item.eng)}

\* The run stands before the only test case of the only test set of the catalog;
\* the xust backend may hold the schema of an earlier test.
InitCase ==
    /\ EvalIdle
    /\ suite \in Suites
    /\ backend \in Backends
    /\ filter = None
    /\ pc = "cases"
    /\ catalog = Catalog(<<Declared("case", "case.xml", 1)>>, EmptyMap)
    /\ set_idx = 1
    /\ test_set \in CaseTestSets(suite)
    /\ todo = test_set.items
    /\ results = <<>>
    /\ cur = <<>>
    /\ validator \in (IF suite = "xsd" /\ backend = "xust"
                      THEN {NoValidator, "earlier.xsd"} ELSE {NoValidator})
    /\ attempted = <<<<1, 1>>>>
    /\ files_read \in {<<FileRead(1, "ok", test_set.environments, <<el>>)>> :
                          el \in CaseElements(suite, test_set)}
    /\ report = <<>>
    /\ output = <<>>
    /\ CliIdle

NextCase ==
    \/ RunQt3TestCase
    \/ RunXsltTestCase
    \/ RunSchemaTest
    \/ RunInstanceTest

SpecCase == InitCase /\ [][NextCase]_vars


(***************************************************************************)
(* SpecParse: parse_test_set of the QT3 and of the XSLT driver on a        *)
(* test-set file with local environments, called with a map of global      *)
(* environments, and the run of the test cases it returned.                *)
(***************************************************************************)
\* The definition of environment n in the catalog ("global/") or in the test-set
\* file ("local/"): its context source is a file of that directory
EnvironmentMap(s, names, dir) ==
    [n \in names |->
        IF s = "qt3"
        THEN Environment(n, <<Source(".", dir \o n \o ".xml")>>)
        ELSE Environment(n, <<XsltSource(".", Some(dir \o n \o ".xml"), None)>>)]

\* Test cases that name the environment "global", "shared" or "local"
EnvironmentElements(s) ==
    {IF s = "qt3"
     THEN Element(TRUE, TestCase("uses-" \o n, Named(n), <<>>, AssertCount(3)), Qt3Works)
     ELSE Element(TRUE, XsltTestCase("uses-" \o n, Some(n), Some("t.xsl"), AssertResult("")),
                  XsltWorks) :
        n \in {"global", "shared", "local"}}

\* The source children an environment element named n is drawn with: one context
\* source; two sources without a role attribute; two sources of role "."; a variable
\* source before the context source; a context source and a source child without a
\* file
SourceShapes ==
    {"context", "two-without-role", "two-contexts", "variable-and-context",
     "context-and-empty"}

SourceChildren(n, shape) ==
    CASE shape = "context" -> <<SourceElement(".", n \o ".xml")>>
      [] shape = "two-without-role" -> <<SourceElement("", "a.xml"), SourceElement("", "b.xml")>>
      [] shape = "two-contexts" -> <<SourceElement(".", "a.xml"), SourceElement(".", "b.xml")>>
      [] shape = "variable-and-context" ->
            <<SourceElement("$x", "a.xml"), SourceElement(".", "b.xml")>>
      [] OTHER -> <<SourceElement(".", "a.xml"), SourceElement("", "")>>

\* The environments the parser of suite s makes of the environment elements named
\* `names`, each with the source children of `shape`, of a file in directory dir
ParsedEnvironments(s, names, dir, shape) ==
    [n \in names |->
        IF s = "qt3"
        THEN parse_environment_with_prefix(EnvironmentElement(n, SourceChildren(n, shape)), dir)
        ELSE xslt_parse_environment(EnvironmentElement(n, SourceChildren(n, shape)), dir)]

InitParse ==
    /\ EvalIdle
    /\ suite \in {"qt3", "xslt30"}
    /\ backend = "xee"
    /\ filter = None
    /\ pc = "parse"
    /\ catalog \in {Catalog(<<Declared("case", "case.xml", 1)>>,
                            EnvironmentMap(suite, names, "global/")) :
                       names \in {{}, {"shared"}, {"global", "shared"}}}
    /\ set_idx = 1
    /\ test_set = TestSet(EmptyMap, <<>>)
    /\ todo = <<>>
    /\ results = <<>>
    /\ cur = <<>>
    /\ validator = NoValidator
    /\ attempted = <<>>
    /\ files_read = <<>>
    /\ report = <<>>
    /\ output = <<>>
    /\ CliIdle

\* parse_test_set(&test_set_path, &global_envs) of qt3 and of xslt30, called with
\* the global environments of the catalog
ParseTestSetWithGlobals ==
    /\ pc = "parse"
    /\ \E names \in SUBSET {"shared", "local"} :
       \E shape \in SourceShapes :
       \E cases \in SeqUpTo(EnvironmentElements(suite), MaxCases) :
          LET doc == TestSetDoc("ok", ParsedEnvironments(suite, names, "local/", shape),
                                cases)
              ts == IF suite = "qt3"
                    THEN qt3_parse_test_set(doc, catalog.environments)
                    ELSE xslt_parse_test_set(doc, catalog.environments)
          IN /\ files_read' = <<FileRead(1, "ok", doc.environments, doc.cases)>>
             /\ attempted' = [k \in 1..Len(doc.cases) |-> Src(k)]
             /\ todo' = ts.items
             /\ test_set' = ts
             /\ pc' = IF ts.items = <<>> THEN "done" ELSE "cases"
    /\ UNCHANGED <<suite, backend, filter, catalog, set_idx, results, cur, validator, report,
                   output>>
    /\ UNCHANGED evalVars
    /\ UNCHANGED cliVars

NextParse ==
    \/ ParseTestSetWithGlobals
    \/ RunQt3TestCase
    \/ RunXsltTestCase

SpecParse == InitParse /\ [][NextParse]_vars


(***************************************************************************)
(* Claims about one test execution (SpecCase) and about a run (Spec).      *)
(***************************************************************************)
Ran == Len(cur) = 1
RanKind(k) == Ran /\ cur[1].item.kind = k

HasUnsatisfiedDependency(e) ==
    \E i \in 1..Len(e.item.test.dependencies) :
        ~check_dependency(e.item.test.dependencies[i], e.engine)

EngineCalls(e) == {e.out.calls[i].op : i \in 1..Len(e.out.calls)}

\* C5: in the QT3 run_test_case a test case with a dependency the active engine does
\* not satisfy gets its single TestResult with outcome NotApplicable and no parse,
\* parse_file or xpath call is made for it; on the xrust backend (XP10/XP20 only) a
\* dependency {spec, "XP31"} is such a dependency.
C5_UnsatisfiedDependencyNotApplicable ==
    RanKind("qt3") =>
        /\ HasUnsatisfiedDependency(cur[1]) =>
              /\ ~cur[1].out.fault
              /\ cur[1].out.result.outcome = NotApplicable
              /\ EngineCalls(cur[1]) \cap {"parse", "parse_file", "xpath"} = {}
              /\ Len(results) = 1
              /\ results[1].outcome = NotApplicable
        /\ (/\ cur[1].engine = "xrust"
            /\ \E i \in 1..Len(cur[1].item.test.dependencies) :
                  cur[1].item.test.dependencies[i] = Dependency("spec", "XP31", TRUE))
           => /\ cur[1].out.result.outcome = NotApplicable
              /\ cur[1].out.calls = <<>>

\* xrust ran a test case whose first dependency it satisfies and whose second,
\* {spec, "XP31"}, it does not, while the engine would have panicked on the query
C5_Witness ==
    /\ RanKind("qt3")
    /\ cur[1].engine = "xrust"
    /\ cur[1].item.test.dependencies =
          <<Dependency("spec", "XP20+", TRUE), Dependency("spec", "XP31", TRUE)>>
    /\ cur[1].item.eng.xpath.fault
    /\ results[1].outcome = NotApplicable

NamesMissingEnvironment(e) ==
    \/ /\ e.item.kind = "qt3"
       /\ e.item.test.environment.kind = "Named"
       /\ e.item.test.environment.name \notin DOMAIN e.environments
    \/ /\ e.item.kind = "xslt30"
       /\ e.item.test.environment.some
       /\ e.item.test.environment.v \notin DOMAIN e.environments

MissingEnvironmentName(e) ==
    IF e.item.kind = "qt3" THEN e.item.test.environment.name ELSE e.item.test.environment.v

\* C6: a test case whose environment reference names an environment that is in no
\* map yields outcome Error with a reason containing "environment" and the name, in
\* the QT3 and in the XSLT runner; it is not executed or judged.
C6_MissingEnvironmentIsError ==
    (Ran /\ NamesMissingEnvironment(cur[1])) =>
        /\ ~cur[1].out.fault
        /\ cur[1].out.result.outcome.tag = "Error"
        /\ Contains(cur[1].out.result.outcome.msg, "environment")
        /\ Contains(cur[1].out.result.outcome.msg, MissingEnvironmentName(cur[1]))
        /\ EngineCalls(cur[1]) \cap {"xpath", "transform"} = {}

\* The QT3 runner ran the query of a test case naming a missing environment against
\* the empty document and judged its result: the test passed
C6_Witness ==
    /\ RanKind("qt3")
    /\ NamesMissingEnvironment(cur[1])
    /\ cur[1].item.test.dependencies = <<>>
    /\ cur[1].out.calls = <<Call("parse", "<empty/>"), Call("xpath", "test")>>
    /\ results[1].outcome = Pass


RunReturned == pc \in {"done", "reported", "printed"}

RowsFor(src) == {i \in 1..Len(results) : results[i].src = src}

\* C7: every test-case element of every test set that is run yields exactly one
\* TestResult in the returned list (none dropped, not even one whose parsing fails
\* or whose name is empty; none reported twice), so the rows are never fewer than
\* the test cases attempted.
C7_OneResultPerTestCase ==
    RunReturned =>
        /\ \A k \in 1..Len(attempted) : Cardinality(RowsFor(attempted[k])) = 1
        /\ Len(results) >= Len(attempted)

\* A QT3 run returned one row for a test set of two test-case elements
C7_Witness ==
    /\ RunReturned
    /\ suite = "qt3"
    /\ attempted = <<<<1, 1>>, <<1, 2>>>>
    /\ Len(results) = 1
    /\ results[1].src = <<1, 2>>

EngineFaulted == Ran /\ cur[1].out.fault

\* C8: an engine fault (panic) during one test case is intercepted around that test
\* case and becomes a TestResult with outcome Error("engine fault: <message>"), and
\* the run goes on with the remaining test cases; in all three runners.
C8_EngineFaultIntercepted ==
    EngineFaulted =>
        /\ pc # "aborted"
        /\ Len(results) > 0
        /\ results[Len(results)].outcome = Error("engine fault: " \o PanicMessage)

\* The backend panicked on the first of two QT3 test cases: the run is gone with the
\* second test case still to run and no row
C8_Witness ==
    /\ EngineFaulted
    /\ suite = "qt3"
    /\ pc = "aborted"
    /\ Len(todo) = 2
    /\ results = <<>>

\* An engine operation of the test returned Error::Unsupported
UnsupportedReturned(e) ==
    /\ ~e.out.fault
    /\ \/ e.engine # "xust" /\ "load_schema_file" \in EngineCalls(e)
       \/ e.engine = "xust" /\ "transform" \in EngineCalls(e)

\* C9: when an engine operation a test needs returns Error::Unsupported (schema
\* loading on xee/xrust, XSLT on xust) the test is reported NotApplicable, never
\* Pass, Fail or Error.
C9_UnsupportedIsNotApplicable ==
    (Ran /\ UnsupportedReturned(cur[1])) =>
        /\ cur[1].out.result.outcome = NotApplicable
        /\ results[Len(results)].outcome = NotApplicable

\* On xee a schema test expecting Invalid passes although no schema was loaded
C9_Witness ==
    /\ RanKind("schema")
    /\ cur[1].engine = "xee"
    /\ cur[1].item.test.expected_validity = "Invalid"
    /\ cur[1].out.calls = <<Call("load_schema_file", "case.xsd")>>
    /\ results[1].outcome = Pass

\* <<test set, element>> positions in declaration order
SrcBefore(a, b) == a[1] < b[1] \/ (a[1] = b[1] /\ a[2] < b[2])

\* C10: the result list is in declaration order - the rows of an earlier-declared
\* test set precede those of a later one, the rows of a set follow the document
\* order of its test cases, no test case has rows on both sides of another's - and
\* ComplianceReport::new keeps the rows in the order of the list it is given.
C10_DeclarationOrder ==
    /\ \A i, j \in 1..Len(results) : i < j => SrcBefore(results[i].src, results[j].src)
    /\ pc = "reported" =>
          /\ Len(report[1].results) = Len(results)
          /\ \A i \in 1..Len(results) :
                /\ report[1].results[i].src = results[i].src
                /\ report[1].results[i].test_id = results[i].test_id

\* A report over two test sets of two test cases each
C10_Witness ==
    /\ pc = "reported"
    /\ Len(report[1].results) = 4
    /\ report[1].results[2].src = <<1, 2>>
    /\ report[1].results[3].src = <<2, 1>>


(***************************************************************************)
(* Claims about a whole run and its report (Spec, SpecReport).             *)
(***************************************************************************)
RECURSIVE Tally(_, _)
Tally(rows, tag) ==
    IF rows = <<>> THEN 0
    ELSE (IF Head(rows).outcome.tag = tag THEN 1 ELSE 0) + Tally(Tail(rows), tag)

\* The references of the parsed catalog that pass the filter
Selected ==
    {catalog.test_sets[i].decl : i \in {j \in 1..Len(catalog.test_sets) :
                                          filter_matches(suite, catalog.test_sets[j], filter)}}

\* A test-set file holding a test asserting a count of three and a test asserting
\* the empty sequence, the engine returning three items for both
CountThenEmpty(file) ==
    /\ file.status = "ok"
    /\ Len(file.elements) = 2
    /\ \A k \in 1..2 : /\ file.elements[k].well_formed
                       /\ file.elements[k].eng.xpath = Returned(ThreeItems)
                       /\ file.elements[k].eng.parse_file = Returned(OkDoc)
    /\ file.elements[1].test.result = AssertCount(3)
    /\ file.elements[2].test.result = AssertEmpty

TwoByTwo ==
    /\ Len(files_read) = 2
    /\ CountThenEmpty(files_read[1])
    /\ CountThenEmpty(files_read[2])

C12_PassRate ==
    pc = "reported" =>
        LET s == report[1].summary
            applicable == Len(results) - Tally(results, "NotApplicable")
                          - Tally(results, "Skipped")
        IN /\ s.total = Len(results)
           /\ s.passed = Tally(results, "Pass")
           /\ s.not_applicable = Tally(results, "NotApplicable")
           /\ s.skipped = Tally(results, "Skipped")
           /\ applicable = Tally(results, "Pass") + Tally(results, "Fail")
                           + Tally(results, "Error")
           /\ IF applicable > 0
              THEN s.pass_rate.num * applicable = Tally(results, "Pass") * 100 * s.pass_rate.den
              ELSE s.pass_rate.num = 0

\* total 10, not applicable 1, skipped 1, passed 6, failed 2, errors 0: 75 percent
C12_Witness ==
    /\ pc = "reported"
    /\ report[1].summary.total = 10
    /\ report[1].summary.not_applicable = 1
    /\ report[1].summary.skipped = 1
    /\ report[1].summary.passed = 6
    /\ report[1].summary.failed = 2
    /\ report[1].summary.errors = 0
    /\ report[1].summary.pass_rate = [num |-> 75, den |-> 1]

WithoutNotApplicable(rows) == SelectSeq(rows, LAMBDA r : r.outcome.tag # "NotApplicable")

\* C13: every pass rate reported for a run is the pass rate of the run without its
\* NotApplicable results, in the summary of the report and in the percentage of
\* the plain summary alike, and one more Fail result lowers a pass rate above 0.
C13_PassRateExcludesNotApplicable ==
    /\ pc = "reported" =>
          /\ report[1].summary.pass_rate
                 = ComplianceSummary(WithoutNotApplicable(results)).pass_rate
          /\ report[1].summary.passed > 0 =>
                LET more == ComplianceSummary(
                                Append(results,
                                       ResultRow(<<0, 0>>, TestResult("t", Fail("m"), ""))))
                IN more.pass_rate.num * report[1].summary.pass_rate.den
                       < report[1].summary.pass_rate.num * more.pass_rate.den
    /\ (pc = "printed" /\ output[1].format = "summary") =>
          output[1].percent = print_summary(WithoutNotApplicable(results)).percent

\* The plain summary of one Pass and one NotApplicable result prints 50.0%
C13_Witness ==
    /\ pc = "printed"
    /\ output[1].format = "summary"
    /\ output[1].passed = 1
    /\ output[1].not_applicable = 1
    /\ output[1].total = 2
    /\ output[1].percent = 500

\* C19: the JSON text of a report parses back into a ComplianceReport, and its
\* summary fields are the counts of the outcomes of the result list, for every
\* result list, the empty one included.
C19_JsonRoundTrip ==
    (pc = "printed" /\ output[1].format = "json") =>
        LET json == output[1].json
        IN /\ json.summary.total = Len(results)
           /\ json.summary.passed = Tally(results, "Pass")
           /\ json.summary.failed = Tally(results, "Fail")
           /\ json.summary.errors = Tally(results, "Error")
           /\ json.summary.not_applicable = Tally(results, "NotApplicable")
           /\ json.summary.skipped = Tally(results, "Skipped")
           /\ from_json(json).ok

\* The JSON text of the report of an empty result list: it has no "results" key
C19_Witness ==
    /\ pc = "printed"
    /\ output[1].format = "json"
    /\ results = <<>>
    /\ "results" \notin DOMAIN output[1].json
    /\ ~from_json(output[1].json).ok

\* C14: when the root catalog cannot be read or parsed (no catalog is ever bound:
\* set_idx stays 0) the runner returns normally with a result list of exactly one
\* result, an Error, and no test set is read; in the three runners.
C14_UnreadableCatalog ==
    (pc # "start" /\ set_idx = 0) =>
        /\ RunReturned
        /\ Len(results) = 1
        /\ results[1].outcome.tag = "Error"
        /\ files_read = <<>>
        /\ attempted = <<>>

\* run_xslt_tests has returned the single Error result of an unreadable catalog
C14_Witness ==
    /\ suite = "xslt30"
    /\ pc = "done"
    /\ set_idx = 0
    /\ Len(results) = 1
    /\ results[1].test_id = "catalog_parse"
    /\ results[1].outcome.tag = "Error"

\* The step that read a test-set file which could not be read or parsed
ReadFailed ==
    /\ Len(files_read') = Len(files_read) + 1
    /\ files_read'[Len(files_read')].status = "error"

\* C15: the step on a test-set file that cannot be read or parsed appends exactly
\* one Error result for that test set to the results collected so far, changes
\* nothing else of the run and moves to the next reference; a run that returned
\* after such a failure has read every test set its filter selects, in catalog order.
C15_TestSetFailureIsolated ==
    /\ [][ReadFailed =>
            /\ Len(results') = Len(results) + 1
            /\ SubSeq(results', 1, Len(results)) = results
            /\ results'[Len(results')].outcome.tag = "Error"
            /\ results'[Len(results')].src = <<catalog.test_sets[set_idx].decl, 0>>
            /\ set_idx' = set_idx + 1
            /\ pc' = LoopPc(catalog, set_idx + 1)
            /\ UNCHANGED <<suite, backend, filter, catalog, test_set, todo, validator,
                           attempted>>]_vars
    /\ [](RunReturned /\ set_idx > 0 =>
            /\ {files_read[i].decl : i \in 1..Len(files_read)} = Selected
            /\ \A i, j \in 1..Len(files_read) :
                  i < j => files_read[i].decl < files_read[j].decl)

\* A run whose first test set could not be parsed and whose second ran two tests
C15_Witness ==
    /\ pc = "done"
    /\ Len(files_read) = 2
    /\ files_read[1].status = "error"
    /\ files_read[2].status = "ok"
    /\ Len(files_read[2].elements) = 2
    /\ Len(results) = 3
    /\ results[1].outcome.tag = "Error"
    /\ results[1].src = <<files_read[1].decl, 0>>
    /\ results[3].src = <<files_read[2].decl, 2>>

\* The result element of the test case that ran, as its test-set file declares it
DeclaredResult == files_read[1].elements[1].test.result

\* C16: the outcome of a test case that reached execution is what the assertion
\* evaluator returns for its expected result and the outcome of the engine: in the
\* QT3 runner check_assertion of the expected-result tree and the result of the
\* query; in the XSLT runner a test case that expects an error is not Pass when the
\* transformation succeeded.
C16_OutcomeIsEvaluatorResult ==
    /\ (RanKind("qt3") /\ ~cur[1].out.fault /\ "xpath" \in EngineCalls(cur[1])) =>
          /\ DeclaredResult = cur[1].item.test.result
          /\ results[1].outcome
                 = check_assertion(DeclaredResult, cur[1].item.eng.xpath.value)
    /\ (RanKind("xslt30") /\ ~cur[1].out.fault /\ "transform" \in EngineCalls(cur[1])
            /\ engine_transform(cur[1].engine, cur[1].item.eng).value.ok) =>
          (DeclaredResult.kind = "Error" => results[1].outcome.tag # "Pass")

\* An XSLT test case that expects error XTSE0010, transformed without error on xee
C16_Witness ==
    /\ RanKind("xslt30")
    /\ cur[1].engine = "xee"
    /\ DeclaredResult = ExpectedResultError("XTSE0010")
    /\ "transform" \in EngineCalls(cur[1])
    /\ cur[1].item.eng.transform = Returned(OkDoc)
    /\ results[1].outcome = Pass

\* XPathEngine::xpath_version and XQueryEngine::xquery_version of the backends, as
\* the digits of the version tokens (V1_0 is 10, V3_1 is 31)
xpath_version(engine) == IF engine = "xrust" THEN 10 ELSE 31
xquery_version(engine) == IF engine = "xrust" THEN 10 ELSE 31

\* The version tokens of a dependency value: its parts between whitespace and "|"
IsSeparator(c) == IsWhitespace(c) \/ c = "|"
Tokens(value) ==
    LET n == Len(value)
        parts == {p \in (1..n) \X (1..n) :
                     /\ p[1] <= p[2]
                     /\ \A k \in p[1]..p[2] : ~IsSeparator(CharAt(value, k))
                     /\ p[1] = 1 \/ IsSeparator(CharAt(value, p[1] - 1))
                     /\ p[2] = n \/ IsSeparator(CharAt(value, p[2] + 1))}
    IN {SubSeq(value, p[1], p[2]) : p \in parts}

\* The tokens an engine declares support for: those of the versions up to the one
\* it declares, for XPath and for XQuery
DeclaredTokens(engine) ==
    {t \in {"XP10", "XP20", "XP30", "XP31"} :
        \/ t = "XP10"
        \/ t = "XP20" /\ xpath_version(engine) >= 20
        \/ t = "XP30" /\ xpath_version(engine) >= 30
        \/ t = "XP31" /\ xpath_version(engine) >= 31}
    \cup
    {t \in {"XQ10", "XQ30", "XQ31"} :
        \/ t = "XQ10"
        \/ t = "XQ30" /\ xquery_version(engine) >= 30
        \/ t = "XQ31" /\ xquery_version(engine) >= 31}

\* The dependencies the loop of run_test_case has checked for the test that ran
CheckedDependencies(e) ==
    LET deps == e.item.test.dependencies
        d == FirstUnsatisfied(deps, e.engine)
    IN {deps[i] : i \in 1..(IF d = 0 THEN Len(deps) ELSE d)}

\* C17: check_dependency on a dependency of type "spec" is true exactly when one of
\* the whitespace- or "|"-separated tokens of the value is a token the active
\* engine declares support for, going by the versions the engine declares.
C17_SpecDependencyByToken ==
    RanKind("qt3") =>
        \A dep \in CheckedDependencies(cur[1]) :
            dep.dep_type = "spec" =>
                (check_dependency(dep, cur[1].engine)
                    <=> Tokens(dep.value) \cap DeclaredTokens(cur[1].engine) # {})

\* xrust, which declares XPath 1.0, ran a test case that depends on XP20+
C17_Witness ==
    /\ RanKind("qt3")
    /\ cur[1].engine = "xrust"
    /\ Len(cur[1].item.test.dependencies) = 1
    /\ cur[1].item.test.dependencies[1].dep_type = "spec"
    /\ cur[1].item.test.dependencies[1].value = "XP20+"
    /\ check_dependency(cur[1].item.test.dependencies[1], "xrust")
    /\ "xpath" \in EngineCalls(cur[1])

\* C18: check_assertion of an expected error with any code, "*" included, is Pass on
\* every engine Err, whatever the error, and Fail on every Ok result; whether it
\* passes is the same for every code.
C18_AnyErrorSatisfiesExpectedError ==
    (Evaluated /\ ev_assertion.kind = "Error") =>
        /\ ~ev_result.ok => ev_outcome.out = Pass
        /\ ev_result.ok => ev_outcome.out.tag = "Fail"
        /\ \A c \in {"*", "XPST0003", "FOER0000"} :
              check_assertion(ExpectedError(c), ev_result).tag = ev_outcome.out.tag

\* Error code XPST0003 was expected and the engine failed with Error::Unsupported
C18_Witness ==
    /\ Evaluated
    /\ ev_assertion = ExpectedError("XPST0003")
    /\ ev_result = ErrResult(Unsupported)
    /\ ev_outcome.out = Pass

\* The environment map `used` is the global map overlaid by the local one
IsOverlay(used, global, local) ==
    /\ DOMAIN used = DOMAIN global \cup DOMAIN local
    /\ \A n \in DOMAIN local : used[n] = local[n]
    /\ \A n \in DOMAIN global \ DOMAIN local : used[n] = global[n]

\* C20: the environment map parse_test_set returns, which the test cases of the
\* test set are resolved in, is the global map it was called with overlaid by the
\* local environments of the file: a name defined in both is the local definition,
\* a name defined in one of them is that definition; in the QT3 and the XSLT parser.
C20_LocalOverlaysGlobal ==
    /\ (pc = "cases" /\ Len(files_read) = 1) =>
          IsOverlay(test_set.environments, catalog.environments, files_read[1].environments)
    /\ (Ran /\ Len(files_read) = 1) =>
          IsOverlay(cur[1].environments, catalog.environments, files_read[1].environments)

\* The XSLT test case "uses-global" of a test set parsed with a global map that
\* defines "global": the environment is not found
C20_Witness ==
    /\ RanKind("xslt30")
    /\ "global" \in DOMAIN catalog.environments
    /\ cur[1].item.test.environment = Some("global")
    /\ "global" \notin DOMAIN cur[1].environments
    /\ results[Len(results)].outcome = Error("Environment not found: global")

\* The sources of the environment the executed test case resolved to (none when the
\* test case has no environment)
ResolvedSources(e) ==
    IF e.item.kind = "qt3"
    THEN LET env == resolve_environment(e.item.test, e.environments)
         IN IF env.some THEN env.env.sources ELSE <<>>
    ELSE IF e.item.test.environment.some
         THEN e.environments[e.item.test.environment.v].sources
         ELSE <<>>

\* The execution came to the loading of the context document, and the test case has
\* no environment or an environment without a source of role "."
LacksContextSource(e) ==
    /\ ~NamesMissingEnvironment(e)
    /\ \A i \in 1..Len(ResolvedSources(e)) : ResolvedSources(e)[i].role # "."
    /\ IF e.item.kind = "qt3"
       THEN ~HasUnsatisfiedDependency(e)
       ELSE e.item.test.stylesheet.some /\ e.item.eng.read_stylesheet

\* What the runner's judgement of the execution outcome is
NormalJudgement(e) ==
    IF e.item.kind = "qt3"
    THEN check_assertion(e.item.test.result, e.item.eng.xpath.value)
    ELSE xslt_transform_outcome(e.item.test, engine_transform(e.engine, e.item.eng).value)

\* C21: when the environment a test case resolves to has no source of role "." (or
\* the test case has no environment), the QT3 and the XSLT runner evaluate the test
\* against the placeholder document <empty/> and judge the result as usual: no source
\* of the environment is loaded as the context item instead, and the outcome is the
\* judgement of the query or transformation.
C21_PlaceholderContext ==
    (Ran /\ cur[1].item.kind \in {"qt3", "xslt30"} /\ LacksContextSource(cur[1])) =>
        /\ cur[1].out.calls[1] = Call("parse", "<empty/>")
        /\ "parse_file" \notin EngineCalls(cur[1])
        /\ ~cur[1].out.fault => cur[1].out.result.outcome = NormalJudgement(cur[1])

\* The XSLT runner ran a test case whose environment has one source, of role "$x":
\* it loaded that source as the context document and, the file being unreadable,
\* ended the test with an Error
C21_Witness ==
    /\ RanKind("xslt30")
    /\ LacksContextSource(cur[1])
    /\ ResolvedSources(cur[1]) = <<XsltSource("$x", Some("x.xml"), None)>>
    /\ cur[1].out.calls = <<Call("parse_file", "x.xml")>>
    /\ results[1].outcome.tag = "Error"

\* Number of sources of role "." of an environment
ContextSources(env) == Cardinality({i \in 1..Len(env.sources) : env.sources[i].role = "."})

\* C22: every environment the environment parser produced, in the map of the parsed
\* test set and in the map a test case was run with, has at most one source of role
\* ".", however many source children the environment element has and whether or not
\* they carry a role attribute.
C22_ContextSourceUnique ==
    /\ \A n \in DOMAIN test_set.environments : ContextSources(test_set.environments[n]) <= 1
    /\ Ran => \A n \in DOMAIN cur[1].environments :
                 ContextSources(cur[1].environments[n]) <= 1

\* The QT3 parser made two sources of role "." of an environment element with two
\* source children without a role attribute, and the test case naming it was run
\* with the first of them as its context document
C22_Witness ==
    /\ RanKind("qt3")
    /\ cur[1].item.test.environment = Named("local")
    /\ "local" \in DOMAIN cur[1].environments
    /\ cur[1].environments["local"].sources =
          <<Source(".", "local/a.xml"), Source(".", "local/b.xml")>>
    /\ cur[1].out.calls[1] = Call("parse_file", "local/a.xml")

\* The option named by one of `names` is on the command line a with a value (the
\* next argument, which is not itself an option name)
OptionNames == {"--engine", "-e", "--suite", "-s", "--filter", "-f", "--output", "-o"}
GivenAt(a, names) ==
    {i \in 1..(Len(a) - 1) : a[i] \in names /\ a[i + 1] \notin OptionNames}
Given(a, names) == GivenAt(a, names) # {}
ValueOf(a, names) == a[(CHOOSE i \in GivenAt(a, names) : TRUE) + 1]

\* The command line asks for a run or a report but the configuration is wrong: the
\* engine or the suite is absent, without value or unknown, or the catalog is missing
ConfigurationError ==
    /\ Len(argv) >= 1
    /\ argv[1] \in {"run", "report"}
    /\ \/ ~Given(argv, {"--engine", "-e"})
       \/ ~Given(argv, {"--suite", "-s"})
       \/ ValueOf(argv, {"--engine", "-e"}) \notin Backends
       \/ ValueOf(argv, {"--suite", "-s"}) \notin Suites
       \/ ~catalog_exists

\* The runner of the suite was called and returned its results
RunCompleted == pc \in {"done", "exited"} /\ suite \in Suites

\* C23: the command line tool exits with code 0 whenever the run completed, whatever
\* the outcomes, for the subcommands run and report and the output formats summary,
\* json, csv and markdown; on a configuration error (engine or suite unknown, absent
\* or without value, catalog file missing) it exits with a nonzero code and the
\* runner is never called.
C23_ExitCodes ==
    /\ (RunCompleted /\ pc = "exited") => exit_code = 0
    /\ (ConfigurationError /\ pc # "main") =>
          /\ pc = "exited"
          /\ exit_code \notin {0, NotExited}
          /\ suite = "none"
          /\ results = <<>>
          /\ output = <<>>

\* conformance report --engine xee --suite qt3 --output summary: the run completed
\* with one passed test, nothing was printed and the process exited with code 1
C23_Witness ==
    /\ argv = <<"report", "--engine", "xee", "--suite", "qt3", "--output", "summary">>
    /\ pc = "exited"
    /\ results = Rows(<<Pass>>)
    /\ output = <<>>
    /\ exit_code = 1

\* C24: an operation of XEngine that takes a document (xpath, xquery, xslt,
\* xslt_to_string, validate), called on a document parsed by another backend,
\* returns an Err and the method of the backend is not invoked; on a document of the
\* engine's own backend the call is dispatched to the method of that backend and
\* returns what it returns.
C24_ForeignDocumentRejected ==
    pc = "returned" =>
        IF cur[1].doc.backend # backend
        THEN /\ ~cur[1].out.result.ok
             /\ cur[1].out.calls = <<>>
        ELSE /\ cur[1].out.calls = <<Call(BackendMethod(cur[1].op), backend)>>
             /\ cur[1].out.result = cur[1].response

\* The xust engine was asked to validate a document parsed by xee, on which its
\* validator would have answered Ok: the call returned the EngineError
C24_Witness ==
    /\ pc = "returned"
    /\ backend = "xust"
    /\ cur[1] = Answered(Invocation("validate", XDocument("xee"), OkDoc),
                          Dispatched(ErrDoc(DifferentEngine), <<>>))

\* The engine calls of operation op made by the execution e
CallsOf(e, op) == SelectSeq(e.out.calls, LAMBDA c : c.op = op)

\* C25: within one XSD test group the schema is loaded into the engine once, before
\* the instance tests of the group run, and each instance test is validated against
\* that loaded validator: an instance test of a group whose schema is loaded does not
\* load the schema again, so k instance tests cause one load in all.
C25_SchemaLoadedOncePerGroup ==
    (RanKind("instance") /\ cur[1].item.schema_path.some) =>
        /\ CallsOf(cur[1], "load_schema_file") = <<>>
        /\ \A i \in 1..Len(cur[1].out.calls) :
              cur[1].out.calls[i].op = "validate" =>
                  cur[1].out.calls[i].arg = cur[1].item.schema_path.v

\* The xust backend ran instance test i1 of group g1 after the schema test of the
\* group had loaded g1.xsd: the instance test loaded g1.xsd again before validating
C25_Witness ==
    /\ RanKind("instance")
    /\ backend = "xust"
    /\ cur[1].item.group = "g1"
    /\ cur[1].before = "g1.xsd"
    /\ cur[1].out.calls = <<Call("load_schema_file", "g1.xsd"), Call("parse", "g1.xml"),
                            Call("validate", "g1.xsd")>>
    /\ results[Len(results)].outcome = Pass

\* The schema of the group of the executed instance test was loaded by the execution
SchemaLoadSucceeded(e) ==
    /\ e.item.schema_path.some
    /\ e.engine = "xust"
    /\ ~e.item.eng.load_schema.fault
    /\ e.item.eng.load_schema.value.ok

\* C26: whenever the validate operation of the engine is invoked for an instance
\* test, the validator the engine holds was loaded from the schema document of the
\* group of that instance test; when loading the schema of the group fails, validate
\* is not invoked, so a validator left over from an earlier group never judges the
\* instance documents of the group.
C26_ValidatorIsOfOwnGroup ==
    RanKind("instance") =>
        /\ \A i \in 1..Len(cur[1].out.calls) :
              cur[1].out.calls[i].op = "validate" =>
                  /\ SchemaLoadSucceeded(cur[1])
                  /\ cur[1].out.calls[i].arg = cur[1].item.schema_path.v
        /\ ~SchemaLoadSucceeded(cur[1]) =>
              /\ CallsOf(cur[1], "validate") = <<>>
              /\ validator = cur[1].before
              /\ \/ results[Len(results)].outcome # Pass
                 \/ cur[1].item.test.expected_validity = "Invalid"

\* The xust backend, holding the validator of an earlier group, ran an instance test
\* expected Valid of a group whose schema fails to load: validate was not invoked
\* and the test failed with the load error
C26_Witness ==
    /\ RanKind("instance")
    /\ backend = "xust"
    /\ cur[1].before = "earlier.xsd"
    /\ cur[1].item.schema_path = Some("case.xsd")
    /\ ~cur[1].item.eng.load_schema.value.ok
    /\ cur[1].item.test.expected_validity = "Valid"
    /\ cur[1].out.calls = <<Call("load_schema_file", "case.xsd")>>
    /\ validator = "earlier.xsd"
    /\ results[1].outcome = Fail("Validation error: XSD validation error: Failed to load schema: bad")

AssertionVocabulary ==
    {"all-of", "any-of", "not", "assert-eq", "assert-true", "assert-false", "assert-empty",
     "assert-count", "assert-type", "assert-string-value", "error", "assert-xml",
     "assert-deep-eq", "assert-permutation", "assert", "serialization-matches"}

\* The result element has been parsed
ResultParsed == pc = "idle" /\ Len(cur) = 1 /\ cur[1].name = "result"

\* What parse_nested_assertions makes of the children of the result element
AsMembers == parse_nested_assertions(cur[1])

\* C27: parse_assertion returns the vacuously passing AllOf([]) for a result
\* element without assertion child; for a result element whose single child is an
\* element of the catalog vocabulary it returns the variant of that element, the
\* same Assertion parse_nested_assertions produces for the element inside all-of.
C27_ResultAssertionParsed ==
    ResultParsed =>
        /\ cur[1].children = <<>> => ev_assertion = AllOf(<<>>)
        /\ (/\ Len(cur[1].children) = 1
            /\ cur[1].children[1].name \in AssertionVocabulary
            /\ Len(AsMembers) = 1)
           => ev_assertion = AsMembers[1]

\* The result element <result><not><assert-empty/></not></result> was parsed into
\* AllOf([]) and the empty result of the query passed, while Not(AssertEmpty), which
\* parse_nested_assertions makes of the same child, fails on it
C27_Witness ==
    /\ ResultParsed
    /\ cur[1].children =
          <<AssertionElement("not", "", "", "",
                             <<AssertionElement("assert-empty", "", "", "", <<>>)>>)>>
    /\ AsMembers = <<Not(AssertEmpty)>>
    /\ ev_assertion = AllOf(<<>>)
    /\ ev_result = OkResult(0, "")
    /\ ev_outcome.out = Pass
    /\ check_assertion(AsMembers[1], ev_result).tag = "Fail"

C29_SummaryCounters ==
    pc = "reported" =>
        LET s == report[1].summary
            applicable == s.total - s.not_applicable - s.skipped
        IN /\ s.total = Len(results)
           /\ s.total = s.passed + s.failed + s.errors + s.not_applicable + s.skipped
           /\ applicable = s.passed + s.failed + s.errors
           /\ s.passed <= applicable
           /\ s.pass_rate.den > 0
           /\ 0 <= s.pass_rate.num
           /\ s.pass_rate.num <= 100 * s.pass_rate.den

\* A report over one result of each of the five outcomes: total 5, applicable 3,
\* one third passed
C29_Witness ==
    /\ pc = "reported"
    /\ report[1].summary.total = 5
    /\ report[1].summary.passed = 1
    /\ report[1].summary.failed = 1
    /\ report[1].summary.errors = 1
    /\ report[1].summary.not_applicable = 1
    /\ report[1].summary.skipped = 1
    /\ report[1].summary.pass_rate = [num |-> 100, den |-> 3]

\* The validity attribute of the expected element of the executed XSD test
ValidityAttribute == files_read[1].elements[1].test.expected_validity

IndeterminateExpected ==
    /\ RanKind("schema") \/ RanKind("instance")
    /\ ToLowercase(ValidityAttribute) \notin {"valid", "invalid"}

\* C30: an XSD schema test or instance test whose validity attribute is neither
\* "valid" nor "invalid" in any letter case (a missing attribute included) has the
\* expected validity Indeterminate and never gets Pass: a validation that succeeds,
\* with either verdict, gives Fail, an engine error gives Fail, and an instance test
\* without schema gives NotApplicable.
C30_IndeterminateNeverPasses ==
    IndeterminateExpected =>
        LET e == cur[1]
            row == results[Len(results)]
        IN /\ e.item.test.expected_validity = "Indeterminate"
           /\ row.outcome # Pass
           /\ IF e.item.kind = "instance" /\ ~e.item.schema_path.some
              THEN row.outcome = NotApplicable
              ELSE IF e.out.fault THEN row.outcome.tag = "Error"
              ELSE /\ row.outcome.tag = "Fail"
                   /\ row.actual \in {"Valid", "Invalid"} =>
                         row.outcome = Fail("Expected Indeterminate, got " \o row.actual)

\* An instance test whose expected element has no validity attribute was validated
\* by the xust backend, which found the instance valid: Fail
C30_Witness ==
    /\ RanKind("instance")
    /\ backend = "xust"
    /\ ValidityAttribute = ""
    /\ cur[1].item.schema_path = Some("case.xsd")
    /\ cur[1].out.calls[Len(cur[1].out.calls)].op = "validate"
    /\ results[1].actual = "Valid"
    /\ results[1].outcome = Fail("Expected Indeterminate, got Valid")

====
